---- MODULE Spec2Model ----
(***************************************************************************)
(* Model of the Hetzner Cloud MCP server (src/mcp_hetzner/server.py).      *)
(*                                                                         *)
(* The program keeps no state of its own: every tool handler reads and     *)
(* changes the provider's state through the hcloud client.  The state of   *)
(* the model is therefore the provider's resources (servers, SSH keys,     *)
(* volumes, firewalls) plus a record of the last handler invocation: its   *)
(* parameters, the provider calls it issued with their outcomes, and the   *)
(* dictionary it returned.  Each handler is an operator from the provider  *)
(* state, its parameters and the provider's behaviour (which of its calls  *)
(* raises, and with what message) to that record and the new provider      *)
(* state; each action of Next is one whole invocation of one tool.         *)
(***************************************************************************)
EXTENDS Integers, Sequences, FiniteSets, TLC

(***************************************************************************)
(* Bounds of the model.                                                    *)
(***************************************************************************)
\* volume sizes range over 1..MaxSize
MaxSize == 2
\* longest rule list given to create_firewall / set_firewall_rules
MaxRules == 2
\* longest resource list given to the firewall handlers
MaxResources == 2
\* longest ssh_keys list given to create_server
MaxKeys == 1
\* longest contexts list of the hcloud CLI configuration file
MaxContexts == 2

(***************************************************************************)
(* Python values.  None of an integer field is the integer None, None of a *)
(* string field the string NoneStr; an Optional[List[...]] is <<>> for     *)
(* None and <<list>> for a list.                                           *)
(***************************************************************************)
None == 0 - 1
NoneStr == "<None>"
NoneList == <<>>
Some(x) == <<x>>

\* Python truthiness: `if x:` / `if not x:`
TruthyInt(x) == x # None /\ x # 0
TruthyStr(s) == s # NoneStr /\ s # ""
TruthyList(o) == o # NoneList /\ o[1] # <<>>

\* truth value of an optional collection kept as a set
TruthySet(o) == o # NoneList /\ o[1] # {}

\* a datetime, and datetime.isoformat()
DateTime(date, time) == [date |-> date, time |-> time]
Isoformat(dt) == dt.date \o "T" \o dt.time
Created == DateTime("2024-01-01", "00:00:00")

\* a domain object that has a name (ServerType, Image, Location, ...)
Named(name) == Some([name |-> name])

\* what reading an attribute of None ends the conversion with
AttributeError == "<AttributeError>"

\* a function with an empty domain: a dict under construction
EmptyDict == [k \in {} |-> 0]

(***************************************************************************)
(* The provider's identifiers and names.  Each kind of resource has one    *)
(* identifier the provider can assign; a request names it or the           *)
(* identifier 0, which never exists.                                       *)
(***************************************************************************)
ServerIds == {1}
VolumeIds == {2}
FirewallIds == {3}
SSHKeyIds == {4}
ServerIdArgs == ServerIds \cup {0}
VolumeIdArgs == VolumeIds \cup {0}
FirewallIdArgs == FirewallIds \cup {0}
SSHKeyIdArgs == SSHKeyIds \cup {0}

ServerTypeNames == <<"cx11">>
ImageNames == <<"ubuntu-22.04">>
LocationNames == <<"nbg1", "fsn1">>

\* messages of the exceptions the provider client raises
Exceptions == {"provider error"}

\* all sequences over S of length at most n
RECURSIVE SeqsUpTo(_, _)
SeqsUpTo(S, n) ==
    IF n = 0 THEN {<<>>}
    ELSE LET shorter == SeqsUpTo(S, n - 1)
         IN  shorter \cup {Append(s, x) : s \in {t \in shorter : Len(t) = n - 1}, x \in S}

(***************************************************************************)
(* Provider state.                                                         *)
(***************************************************************************)
VARIABLES
    servers,    \* the set of existing server ids
    ssh_keys,   \* for each SSH key id: whether it exists, its name and public key
    volumes,    \* [VolumeIds -> [exists, size, server]]
    firewalls,  \* [FirewallIds -> [exists, rules, applied_to]]
    action_status,  \* the status the provider gives the Actions it returns
    process,    \* the server process: its configuration file and how far it has started
    last,       \* the tool invocation that has just returned, if any
    resizes     \* the resize_volume invocations under way, each between two provider calls

vars == <<servers, ssh_keys, volumes, firewalls, action_status, process, last, resizes>>

Provider ==
    [servers |-> servers, ssh_keys |-> ssh_keys, volumes |-> volumes,
     firewalls |-> firewalls]

NoVolume == [exists |-> FALSE, size |-> 0, server |-> None]
NoFirewall == [exists |-> FALSE, rules |-> <<>>, applied_to |-> {}]
NoSSHKey == [exists |-> FALSE, name |-> "", public_key |-> ""]

ServerExists(p, id) == id \in p.servers
SSHKeyExists(p, id) == id \in SSHKeyIds /\ p.ssh_keys[id].exists
VolumeExists(p, id) == id \in VolumeIds /\ p.volumes[id].exists
FirewallExists(p, id) == id \in FirewallIds /\ p.firewalls[id].exists

Min(S) == CHOOSE x \in S : \A y \in S : x <= y

(***************************************************************************)
(* What a handler body produces: it returns a dictionary or raises, after  *)
(* the provider calls `calls`, leaving the provider in state `prov`.       *)
(***************************************************************************)
Return(value, calls, p) ==
    [raised |-> FALSE, value |-> value, calls |-> calls, prov |-> p]

Raise(exc, calls, p) ==
    [raised |-> TRUE, value |-> [exception |-> exc], calls |-> calls, prov |-> p]

\* an f-string: its fixed text, and the integers and strings formatted into it
Msg(fmt, ids, names) == [fmt |-> fmt, ids |-> ids, names |-> names]

\* a handler without its try/except: the exception leaves the handler
Propagate(body, fmt) == body

\* try: <body> except Exception as e: return {"error": f"Failed to ...: {str(e)}"}
TryExcept(body, fmt) ==
    IF body.raised
    THEN Return([error |-> Msg(fmt, <<>>, <<body.value.exception>>)],
                body.calls, body.prov)
    ELSE body

\* one provider call and its outcome
Call(op, id, name, out) == [op |-> op, id |-> id, name |-> name, out |-> out]

\* client.<collection>.get_all()
GetAll(op, raises) == Call(op, None, "", IF raises THEN "raise" ELSE "ok")

\* client.<collection>.get_by_id(id): the resource, None, or an exception
GetById(op, exists, id, raises) ==
    Call(op, id, "", IF raises THEN "raise" ELSE IF exists THEN "found" ELSE "none")

\* client.<collection>.get_by_name(name)
GetByName(op, names, name, raises) ==
    Call(op, None, name,
         IF raises THEN "raise"
         ELSE IF \E i \in 1..Len(names) : names[i] = name THEN "found" ELSE "none")

\* a call that changes the provider: it succeeds or raises
Mutation(op, id, raises) == Call(op, id, "", IF raises THEN "raise" ELSE "ok")

\* the statuses of a provider Action: under way, or finished
ActionStatuses == {"running", "success"}

\* the Action a mutating provider call returns: the provider has started the
\* work and reports how far it is
ActionObject(command) ==
    [id |-> 1, status |-> action_status, command |-> command,
     progress |-> IF action_status = "running" THEN 0 ELSE 100,
     error |-> NoneStr, started |-> Some(Created),
     finished |-> IF action_status = "running" THEN NoneList
                  ELSE Some(DateTime("2024-01-01", "00:00:05"))]

\* the mutant that waits for the Action to finish before it reports it
ActionDictAwaited(command) ==
    [id |-> ActionObject(command).id, status |-> "success", command |-> command,
     progress |-> 100, error |-> NoneStr,
     started |-> Isoformat(ActionObject(command).started[1]),
     finished |-> "2024-01-01T00:00:05"]

\* the dictionary a handler builds from a returned Action
ActionDict(command) ==
    LET action == ActionObject(command)
    IN  [id |-> action.id, status |-> action.status, command |-> action.command,
         progress |-> action.progress, error |-> action.error,
         started |-> IF action.started # NoneList THEN Isoformat(action.started[1])
                     ELSE NoneStr,
         finished |-> IF action.finished # NoneList THEN Isoformat(action.finished[1])
                      ELSE NoneStr]

\* the mutant that marks the failure inside a success dictionary
NotFoundUnsuccessful(fmt, id) == [success |-> FALSE, error |-> Msg(fmt, <<id>>, <<>>)]
NotFound(fmt, id) == [error |-> Msg(fmt, <<id>>, <<>>)]

\* {"error": f"... '{name}' not found..."}, followed in create_server by the
\* names that are available; the mutant leaves the name out
NameNotFoundUnnamed(fmt, name, available) == [error |-> Msg(fmt, <<>>, available)]
NameNotFound(fmt, name, available) == [error |-> Msg(fmt, <<>>, <<name>> \o available)]

\* a handler that only lists a collection
ListHandler(p, op, value, failAt, exc, fmt) ==
    TryExcept(
        LET c1 == GetAll(op, failAt = 1)
        IN  IF c1.out = "raise" THEN Raise(exc, <<c1>>, p) ELSE Return(value, <<c1>>, p),
        fmt)

(***************************************************************************)
(* Start of the process: the credential, the client, the tools.            *)
(***************************************************************************)
\* the hcloud CLI configuration file: absent, not TOML, or TOML with an
\* active_context (NoneStr when the key is missing) and a list of contexts
\* (a record's token is NoneStr when the key is missing)
ContextNames == {"prod", "dev"}
Tokens == {"tok-a", "tok-b"}
Contexts == [name : ContextNames, token : Tokens \cup {"", NoneStr}]
ConfigFile(file, active_context, contexts) ==
    [file |-> file, active_context |-> active_context, contexts |-> contexts]
Configs ==
    {ConfigFile("absent", NoneStr, <<>>), ConfigFile("malformed", NoneStr, <<>>)}
    \cup {ConfigFile("toml", a, cs) :
             a \in {NoneStr, "", "prod"}, cs \in SeqsUpTo(Contexts, MaxContexts)}

\* what authenticate, or its try block, ends with: the token it returns or
\* the exception it raises (for a RuntimeError, `cause` is the message of the
\* exception it wraps)
NoError == [type |-> "", fmt |-> "", cause |-> "", names |-> <<>>]
AuthReturn(token) == [raised |-> FALSE, token |-> token, error |-> NoError]
AuthRaise(type, fmt, cause, names) ==
    [raised |-> TRUE, token |-> NoneStr,
     error |-> [type |-> type, fmt |-> fmt, cause |-> cause, names |-> names]]

\* the mutant that takes the token of the first context, whatever its name
RECURSIVE FindContextAnyName(_, _, _)
FindContextAnyName(contexts, active_context, i) ==
    IF i > Len(contexts)
    THEN AuthRaise("ValueError", "Active context '{}' not found in contexts", "",
                   <<active_context>>)
    ELSE IF ~TruthyStr(contexts[i].token)
    THEN AuthRaise("ValueError", "No token found for context '{}'", "", <<active_context>>)
    ELSE AuthReturn(contexts[i].token)

\* for context in contexts: if context.get("name") == active_context: ...
RECURSIVE FindContext(_, _, _)
FindContext(contexts, active_context, i) ==
    IF i > Len(contexts)
    THEN AuthRaise("ValueError", "Active context '{}' not found in contexts", "",
                   <<active_context>>)
    ELSE IF contexts[i].name = active_context
    THEN IF ~TruthyStr(contexts[i].token)
         THEN AuthRaise("ValueError", "No token found for context '{}'", "", <<active_context>>)
         ELSE AuthReturn(contexts[i].token)
    ELSE FindContext(contexts, active_context, i + 1)

\* the try block of authenticate
AuthenticateBody(config) ==
    IF config.file = "malformed"
    THEN AuthRaise("TomlDecodeError", "invalid TOML", "", <<>>)
    ELSE IF ~TruthyStr(config.active_context)
    THEN AuthRaise("ValueError", "No active context found in hcloud configuration", "", <<>>)
    ELSE FindContext(config.contexts, config.active_context, 1)

\* the mutant that hands out an empty token instead of raising
authenticate_or_empty(config) ==
    IF config.file = "absent" \/ AuthenticateBody(config).raised
    THEN AuthReturn("")
    ELSE AuthenticateBody(config)

authenticate(config) ==
    IF config.file = "absent"
    THEN AuthRaise("FileNotFoundError",
                   "hcloud CLI configuration not found. Please run login to hcloud to setup the hcloud CLI first.",
                   "", <<>>)
    ELSE LET body == AuthenticateBody(config)
         IN  IF ~body.raised THEN body
             ELSE IF body.error.type = "TomlDecodeError"
             THEN AuthRaise("ValueError", "Invalid TOML format in hcloud configuration: {}",
                            body.error.fmt, <<>>)
             ELSE AuthRaise("RuntimeError", "Error reading hcloud configuration: {}",
                            body.error.fmt, body.error.names)

\* the process before it has run a line of the module, and the process that
\* serves requests
\* the listener port: os.environ.get("MCP_PORT", <default>) where mcp is
\* constructed and where start_server runs, with the default of each place
ConstructedDefaultPort == 8089
StartDefaultPort == 8080

\* int(s) of the values MCP_PORT has
ParseInt(s) == IF s = "9000" THEN 9000 ELSE 9001
PortsOfEnviron == {NoneStr, "9000", "9001"}
PortArgs == {None, 7000}

\* start_server: `if port is None: port = int(os.environ.get("MCP_PORT", 8080))`
StartPort(environ_port, port) ==
    IF port = None
    THEN IF environ_port = NoneStr THEN StartDefaultPort ELSE ParseInt(environ_port)
    ELSE port

\* FastMCP(..., port=int(os.environ.get("MCP_PORT", 8089)))
ConstructedPort(environ_port) ==
    IF environ_port = NoneStr THEN ConstructedDefaultPort ELSE ParseInt(environ_port)

Importing(config) ==
    [phase |-> "importing", config |-> config, token |-> NoneStr, error |-> NoError,
     client |-> FALSE, tools |-> FALSE, environ_port |-> NoneStr, port_arg |-> None,
     mcp_port |-> None, announced |-> None]
Serving ==
    [phase |-> "serving", config |-> ConfigFile("toml", "prod", <<[name |-> "prod", token |-> "tok-a"]>>),
     token |-> "tok-a", error |-> NoError, client |-> TRUE, tools |-> TRUE,
     environ_port |-> NoneStr, port_arg |-> None,
     mcp_port |-> StartPort(NoneStr, None), announced |-> StartPort(NoneStr, None)]

(***************************************************************************)
(* Server handlers.                                                        *)
(***************************************************************************)
DatacenterOf(location) ==
    IF location = "nbg1" THEN "nbg1-dc3"
    ELSE IF location = "fsn1" THEN "fsn1-dc14" ELSE NoneStr

\* a Server object of the client: its optional parts are all there
ServerAt(id, status, server_type, image, location, volume_ids) ==
    [id |-> id, status |-> status, created |-> Some(Created),
     server_type |-> Named(server_type), image |-> Named(image),
     datacenter |-> Some([name |-> DatacenterOf(location), location |-> Named(location)]),
     public_net |-> Some([ipv4 |-> Some([ip |-> "192.0.2.1"]),
                          ipv6 |-> Some([ip |-> "2001:db8::/64"])]),
     protection |-> Some([delete |-> FALSE, rebuild |-> FALSE]),
     volumes |-> Some(volume_ids)]

\* the Server object the client returns for an existing server (the model
\* keeps which servers exist, not where they run)
ServerObject(p, id) ==
    ServerAt(id, "running", ServerTypeNames[1], ImageNames[1], LocationNames[1],
             {v \in VolumeIds : p.volumes[v].exists /\ p.volumes[v].server = id})

\* the mutant that reports the datacenter's name as the location
server_to_dict_datacenter(server) ==
    [id |-> server.id, status |-> server.status,
     created |-> IF server.created # NoneList THEN Isoformat(server.created[1]) ELSE NoneStr,
     server_type |-> IF server.server_type # NoneList THEN server.server_type[1].name
                     ELSE NoneStr,
     image |-> IF server.image # NoneList THEN server.image[1].name ELSE NoneStr,
     datacenter |-> IF server.datacenter # NoneList THEN server.datacenter[1].name
                    ELSE NoneStr,
     location |-> IF server.datacenter # NoneList THEN server.datacenter[1].name
                  ELSE NoneStr,
     public_net |->
        [ipv4 |-> IF server.public_net # NoneList /\ server.public_net[1].ipv4 # NoneList
                  THEN server.public_net[1].ipv4[1].ip ELSE NoneStr,
         ipv6 |-> IF server.public_net # NoneList /\ server.public_net[1].ipv6 # NoneList
                  THEN server.public_net[1].ipv6[1].ip ELSE NoneStr],
     protection |->
        [delete |-> IF server.protection # NoneList THEN server.protection[1].delete
                    ELSE FALSE,
         rebuild |-> IF server.protection # NoneList THEN server.protection[1].rebuild
                     ELSE FALSE],
     volumes |-> IF TruthySet(server.volumes) THEN server.volumes[1] ELSE {}]

server_to_dict(server) ==
    [id |-> server.id, status |-> server.status,
     created |-> IF server.created # NoneList THEN Isoformat(server.created[1]) ELSE NoneStr,
     server_type |-> IF server.server_type # NoneList THEN server.server_type[1].name
                     ELSE NoneStr,
     image |-> IF server.image # NoneList THEN server.image[1].name ELSE NoneStr,
     datacenter |-> IF server.datacenter # NoneList THEN server.datacenter[1].name
                    ELSE NoneStr,
     location |-> IF server.datacenter # NoneList /\ server.datacenter[1].location # NoneList
                  THEN server.datacenter[1].location[1].name ELSE NoneStr,
     public_net |->
        [ipv4 |-> IF server.public_net # NoneList /\ server.public_net[1].ipv4 # NoneList
                  THEN server.public_net[1].ipv4[1].ip ELSE NoneStr,
         ipv6 |-> IF server.public_net # NoneList /\ server.public_net[1].ipv6 # NoneList
                  THEN server.public_net[1].ipv6[1].ip ELSE NoneStr],
     protection |->
        [delete |-> IF server.protection # NoneList THEN server.protection[1].delete
                    ELSE FALSE,
         rebuild |-> IF server.protection # NoneList THEN server.protection[1].rebuild
                     ELSE FALSE],
     volumes |-> IF TruthySet(server.volumes) THEN server.volumes[1] ELSE {}]

list_servers(p, failAt, exc) ==
    ListHandler(p, "servers.get_all",
        [servers |-> {server_to_dict(ServerObject(p, s)) : s \in {x \in ServerIds : ServerExists(p, x)}}],
        failAt, exc, "Failed to list servers: {}")

get_server(p, server_id, failAt, exc) ==
    TryExcept(
        LET c1 == GetById("servers.get_by_id", ServerExists(p, server_id), server_id, failAt = 1)
        IN  IF c1.out = "raise" THEN Raise(exc, <<c1>>, p)
            ELSE IF c1.out = "none"
            THEN Return(NotFound("Server with ID {} not found", server_id), <<c1>>, p)
            ELSE Return([server |-> server_to_dict(ServerObject(p, server_id))], <<c1>>, p),
        "Failed to get server: {}")

\* class CreateServerParams: location defaults to "nbg1" when the request omits it;
\* the mutant has the default None
Omitted == "<omitted>"
CreateServerParamsNoDefault(server_type, image, location, keys) ==
    [server_type |-> server_type, image |-> image,
     location |-> IF location = Omitted THEN NoneStr ELSE location,
     ssh_keys |-> keys]
CreateServerParams(server_type, image, location, keys) ==
    [server_type |-> server_type, image |-> image,
     location |-> IF location = Omitted THEN "nbg1" ELSE location,
     ssh_keys |-> keys]

\* the loop over params.ssh_keys: the lookups it makes, from call number n on,
\* and the SSH key objects it collects
RECURSIVE ResolveKeys(_, _, _, _, _)
ResolveKeys(p, keys, i, n, failAt) ==
    IF i > Len(keys) THEN [raised |-> FALSE, calls |-> <<>>, keys |-> <<>>]
    ELSE LET c == GetById("ssh_keys.get_by_id", SSHKeyExists(p, keys[i]), keys[i], failAt = n)
         IN  IF c.out = "raise" THEN [raised |-> TRUE, calls |-> <<c>>, keys |-> <<>>]
             ELSE LET more == ResolveKeys(p, keys, i + 1, n + 1, failAt)
                  IN  [raised |-> more.raised, calls |-> <<c>> \o more.calls,
                       keys |-> (IF c.out = "found" THEN <<keys[i]>> ELSE <<>>) \o more.keys]

\* client.servers.create(...): the provider assigns the free identifier
ServersCreate(p, id) == [p EXCEPT !.servers = @ \cup {id}]

create_server(p, params, failAt, exc) ==
    TryExcept(TryExcept(
        LET lookups == <<GetAll("server_types.get_all", failAt = 1),
                         GetAll("images.get_all", failAt = 2),
                         GetAll("locations.get_all", failAt = 3),
                         GetByName("server_types.get_by_name", ServerTypeNames, params.server_type, failAt = 4),
                         GetByName("images.get_by_name", ImageNames, params.image, failAt = 5),
                         GetByName("locations.get_by_name", LocationNames, params.location, failAt = 6)>>
            ks == IF TruthyList(params.ssh_keys)
                  THEN ResolveKeys(p, params.ssh_keys[1], 1, 7, failAt)
                  ELSE [raised |-> FALSE, calls |-> <<>>, keys |-> <<>>]
            free == {s \in ServerIds : ~ServerExists(p, s)}
            n == 7 + Len(ks.calls)
            create == Mutation("servers.create", None, failAt = n \/ free = {})
                      @@ [server_type |-> params.server_type, image |-> params.image,
                          location |-> params.location, ssh_keys |-> ks.keys]
            new == Min(free)
            server == ServerAt(new, "initializing", params.server_type, params.image,
                               params.location, {})
        IN  IF failAt \in 1..6 THEN Raise(exc, SubSeq(lookups, 1, failAt), p)
            ELSE IF lookups[4].out = "none"
            THEN Return(NameNotFound("Server type '{}' not found. Available types: {}",
                                     params.server_type, ServerTypeNames), lookups, p)
            ELSE IF lookups[5].out = "none"
            THEN Return(NameNotFound("Image '{}' not found. Available images: {}",
                                     params.image, ImageNames), lookups, p)
            ELSE IF lookups[6].out = "none"
            THEN Return(NameNotFound("Location '{}' not found. Available locations: {}",
                                     params.location, LocationNames), lookups, p)
            ELSE IF ks.raised THEN Raise(exc, lookups \o ks.calls, p)
            ELSE IF create.out = "raise" THEN Raise(exc, lookups \o ks.calls \o <<create>>, p)
            ELSE Return([server |-> server_to_dict(server),
                         action |-> ActionDict("create_server"),
                         root_password |-> IF ks.keys = <<>> THEN "generated" ELSE NoneStr],
                        lookups \o ks.calls \o <<create>>,
                        ServersCreate(p, new)),
        "Failed to create server: {}"), "Failed to create server: {}")

\* client.servers.delete(server): the provider detaches its volumes and
\* drops it from the firewalls applied to it
ServersDelete(p, id) ==
    [p EXCEPT !.servers = @ \ {id},
              !.volumes = [v \in VolumeIds |->
                  IF p.volumes[v].exists /\ p.volumes[v].server = id
                  THEN [p.volumes[v] EXCEPT !.server = None] ELSE p.volumes[v]],
              !.firewalls = [f \in FirewallIds |->
                  [p.firewalls[f] EXCEPT !.applied_to =
                      {r \in p.firewalls[f].applied_to : r.server # id}]]]

\* the mutant that issues the call before it looks at what the fetch returned
ServerActionUnchecked(p, server_id, failAt, exc, op, command, after, fmt) ==
    TryExcept(
        LET c1 == GetById("servers.get_by_id", ServerExists(p, server_id), server_id, failAt = 1)
            c2 == Mutation(op, server_id, failAt = 2)
        IN  IF c1.out = "raise" THEN Raise(exc, <<c1>>, p)
            ELSE IF c2.out = "raise" THEN Raise(exc, <<c1, c2>>, p)
            ELSE IF c1.out = "none"
            THEN Return(NotFound("Server with ID {} not found", server_id), <<c1, c2>>, after)
            ELSE Return([success |-> TRUE, action |-> ActionDict(command)],
                        <<c1, c2>>, after),
        fmt)

\* a handler that fetches a server by ID and issues one call on it
ServerAction(p, server_id, failAt, exc, op, command, after, fmt) ==
    TryExcept(
        LET c1 == GetById("servers.get_by_id", ServerExists(p, server_id), server_id, failAt = 1)
            c2 == Mutation(op, server_id, failAt = 2)
        IN  IF c1.out = "raise" THEN Raise(exc, <<c1>>, p)
            ELSE IF c1.out = "none"
            THEN Return(NotFound("Server with ID {} not found", server_id), <<c1>>, p)
            ELSE IF c2.out = "raise" THEN Raise(exc, <<c1, c2>>, p)
            ELSE Return([success |-> TRUE, action |-> ActionDict(command)],
                        <<c1, c2>>, after),
        fmt)

delete_server(p, server_id, failAt, exc) ==
    ServerAction(p, server_id, failAt, exc, "servers.delete", "delete_server",
                 IF ServerExists(p, server_id) THEN ServersDelete(p, server_id) ELSE p,
                 "Failed to delete server: {}")

\* the power actions are asynchronous: the Action is returned while the
\* server's state at the provider is still what it was
power_on(p, server_id, failAt, exc) ==
    ServerAction(p, server_id, failAt, exc, "servers.power_on", "start_server", p,
                 "Failed to power on server: {}")

power_off(p, server_id, failAt, exc) ==
    ServerAction(p, server_id, failAt, exc, "servers.power_off", "stop_server", p,
                 "Failed to power off server: {}")

reboot(p, server_id, failAt, exc) ==
    ServerAction(p, server_id, failAt, exc, "servers.reboot", "reboot_server", p,
                 "Failed to reboot server: {}")

list_images(p, failAt, exc) ==
    ListHandler(p, "images.get_all", [images |-> ImageNames], failAt, exc,
                "Failed to list images: {}")

list_server_types(p, failAt, exc) ==
    ListHandler(p, "server_types.get_all", [server_types |-> ServerTypeNames], failAt, exc,
                "Failed to list server types: {}")

list_locations(p, failAt, exc) ==
    ListHandler(p, "locations.get_all", [locations |-> LocationNames], failAt, exc,
                "Failed to list locations: {}")

(***************************************************************************)
(* Firewall handlers.                                                      *)
(***************************************************************************)
\* requests' rules (class FirewallRuleParam): one with every optional field
\* set, one with port unset and the other optional fields set but empty
RuleFull ==
    [direction |-> "out", protocol |-> "tcp", source_ips |-> <<>>, port |-> "80",
     destination_ips |-> Some(<<"10.0.0.0/8">>), description |-> "web"]
RuleBare ==
    [direction |-> "in", protocol |-> "icmp", source_ips |-> <<"0.0.0.0/0">>,
     port |-> NoneStr, destination_ips |-> Some(<<>>), description |-> ""]
RuleParams == {RuleFull, RuleBare}

\* rules as the client returns them: also one with no optional field set,
\* and one whose port is the empty string
RuleUnset ==
    [direction |-> "in", protocol |-> "udp", source_ips |-> <<"::/0">>,
     port |-> NoneStr, destination_ips |-> NoneList, description |-> NoneStr]
RuleNoPort == [RuleFull EXCEPT !.port = ""]
SourceRules == {RuleFull, RuleBare, RuleUnset, RuleNoPort}

\* requests' resources (class FirewallResourceParam)
ResourceParam(type, server_id, label_selector) ==
    [type |-> type, server_id |-> server_id, label_selector |-> label_selector]
ResourceParams ==
    {ResourceParam("server", id, NoneStr) : id \in ServerIdArgs \cup {None}}
    \cup {ResourceParam("label_selector", None, l) : l \in {"env=prod", NoneStr}}
    \cup {ResourceParam("network", None, NoneStr)}

\* FirewallRule(direction=..., protocol=..., source_ips=..., port=...,
\*              destination_ips=..., description=...)
FirewallRule(rule_param) ==
    [direction |-> rule_param.direction, protocol |-> rule_param.protocol,
     source_ips |-> rule_param.source_ips, port |-> rule_param.port,
     destination_ips |-> rule_param.destination_ips,
     description |-> rule_param.description]

\* FirewallResource(type=..., server=...) / (type=..., label_selector=...)
FirewallResource(type, server, label_selector) ==
    [type |-> type, server |-> server, label_selector |-> label_selector]

ServerName(id) == "server"

\* the Firewall object the client returns for an existing firewall: its
\* applied_to list names the server first; a label selector comes with the
\* servers it matches
FirewallObject(p, id) ==
    LET fw == p.firewalls[id]
        matched == {s \in ServerIds : ServerExists(p, s)}
        nested(r) == IF r.type = "label_selector"
                     THEN [j \in 1..Cardinality(matched) |->
                              FirewallResource("server", Min(matched), NoneStr)]
                     ELSE <<>>
        withNested(r) == r @@ [applied_to_resources |-> nested(r)]
        srv == {r \in fw.applied_to : r.type = "server"}
        lbl == {r \in fw.applied_to : r.type # "server"}
        one(S) == IF S = {} THEN <<>> ELSE <<withNested(CHOOSE r \in S : TRUE)>>
    IN  [id |-> id, rules |-> Some(fw.rules), applied_to |-> Some(one(srv) \o one(lbl)),
         created |-> Some(Created)]

\* the mutant that emits every optional field, null when it has no value
rule_dict_nulls(rule) ==
    [direction |-> rule.direction, protocol |-> rule.protocol,
     source_ips |-> rule.source_ips,
     port |-> IF TruthyStr(rule.port) THEN rule.port ELSE NoneStr,
     destination_ips |-> IF TruthyList(rule.destination_ips) THEN rule.destination_ips[1]
                         ELSE <<>>,
     description |-> IF TruthyStr(rule.description) THEN rule.description ELSE NoneStr]

\* the rule_dict that firewall_to_dict builds for one rule
rule_dict(rule) ==
    [direction |-> rule.direction, protocol |-> rule.protocol,
     source_ips |-> rule.source_ips]
    @@ (IF TruthyStr(rule.port) THEN [port |-> rule.port] ELSE EmptyDict)
    @@ (IF TruthyList(rule.destination_ips)
        THEN [destination_ips |-> rule.destination_ips[1]] ELSE EmptyDict)
    @@ (IF TruthyStr(rule.description)
        THEN [description |-> rule.description] ELSE EmptyDict)

\* `if resource.server:` on the server object of a resource, which the model
\* names by its id: the object is there or it is None
server_dict(r) ==
    IF r.server # None
    THEN [server |-> [id |-> r.server, name |-> ServerName(r.server)]]
    ELSE EmptyDict

\* the mutant that expands the resources of a nested resource as well
applied_resource_dict_deeper(applied_resource) ==
    [type |-> applied_resource.type] @@ server_dict(applied_resource)
    @@ (IF "applied_to_resources" \in DOMAIN applied_resource
           /\ applied_resource.applied_to_resources # <<>>
        THEN [applied_to_resources |->
                 [j \in 1..Len(applied_resource.applied_to_resources) |->
                     [type |-> applied_resource.applied_to_resources[j].type]]]
        ELSE EmptyDict)

\* the applied_resource_dict that firewall_to_dict builds for a nested resource
applied_resource_dict(applied_resource) ==
    [type |-> applied_resource.type] @@ server_dict(applied_resource)

firewall_to_dict(firewall) ==
    LET resource_dict(r) ==
            [type |-> r.type] @@ server_dict(r)
            @@ (IF r.label_selector # NoneStr
                THEN [label_selector |-> [selector |-> r.label_selector]] ELSE EmptyDict)
            @@ (IF r.applied_to_resources # <<>>
                THEN [applied_to_resources |->
                         [j \in 1..Len(r.applied_to_resources) |->
                             applied_resource_dict(r.applied_to_resources[j])]]
                ELSE EmptyDict)
    IN  [id |-> firewall.id,
         rules |-> IF TruthyList(firewall.rules)
                   THEN [j \in 1..Len(firewall.rules[1]) |-> rule_dict(firewall.rules[1][j])]
                   ELSE <<>>,
         applied_to |-> IF TruthyList(firewall.applied_to)
                        THEN [j \in 1..Len(firewall.applied_to[1]) |->
                                 resource_dict(firewall.applied_to[1][j])]
                        ELSE <<>>,
         created |-> IF firewall.created # NoneList THEN Isoformat(firewall.created[1])
                     ELSE NoneStr]

\* "actions": [...] if actions else None
ActionList(actions) == IF actions # <<>> THEN Some(actions) ELSE NoneList

list_firewalls(p, failAt, exc) ==
    ListHandler(p, "firewalls.get_all",
        [firewalls |-> {firewall_to_dict(FirewallObject(p, f)) : f \in {x \in FirewallIds : FirewallExists(p, x)}}],
        failAt, exc, "Failed to list firewalls: {}")

get_firewall(p, firewall_id, failAt, exc) ==
    TryExcept(
        LET c1 == GetById("firewalls.get_by_id", FirewallExists(p, firewall_id), firewall_id, failAt = 1)
        IN  IF c1.out = "raise" THEN Raise(exc, <<c1>>, p)
            ELSE IF c1.out = "none"
            THEN Return(NotFound("Firewall with ID {} not found", firewall_id), <<c1>>, p)
            ELSE Return([firewall |-> firewall_to_dict(FirewallObject(p, firewall_id))], <<c1>>, p),
        "Failed to get firewall: {}")

\* `if not resource_param.server_id:` with the mutant that never finds it missing
ServerIdNeverMissing(resource_param) == FALSE
ServerIdMissing(resource_param) == ~TruthyInt(resource_param.server_id)

\* `if not resource_param.label_selector:` with the mutant that never finds it missing
LabelSelectorNeverMissing(resource_param) == FALSE
LabelSelectorMissing(resource_param) == ~TruthyStr(resource_param.label_selector)

\* the loop over the resource parameters, from element i and call number n on:
\* it ends with the FirewallResource objects ("ok"), with an error dictionary
\* returned from inside the loop ("return"), or with an exception ("raise")
RECURSIVE ResolveResources(_, _, _, _, _)
ResolveResources(p, resources, i, n, failAt) ==
    IF i > Len(resources)
    THEN [kind |-> "ok", value |-> EmptyDict, calls |-> <<>>, resources |-> <<>>]
    ELSE LET rp == resources[i]
             c == GetById("servers.get_by_id", ServerExists(p, rp.server_id), rp.server_id, failAt = n)
             stop(value, calls) ==
                 [kind |-> "return", value |-> value, calls |-> calls, resources |-> <<>>]
             continue(resource, calls) ==
                 LET more == ResolveResources(p, resources, i + 1, n + Len(calls), failAt)
                 IN  [more EXCEPT !.calls = calls \o more.calls,
                                  !.resources = <<resource>> \o more.resources]
         IN  IF rp.type = "server"
             THEN IF ServerIdMissing(rp)
                  THEN stop([error |-> Msg("Server ID is required when resource type is 'server'",
                                           <<>>, <<>>)], <<>>)
                  ELSE IF c.out = "raise"
                  THEN [kind |-> "raise", value |-> EmptyDict, calls |-> <<c>>, resources |-> <<>>]
                  ELSE IF c.out = "none"
                  THEN stop(NotFound("Server with ID {} not found", rp.server_id), <<c>>)
                  ELSE continue(FirewallResource(rp.type, rp.server_id, NoneStr), <<c>>)
             ELSE IF rp.type = "label_selector"
             THEN IF LabelSelectorMissing(rp)
                  THEN stop([error |-> Msg("Label selector is required when resource type is 'label_selector'",
                                           <<>>, <<>>)], <<>>)
                  ELSE continue(FirewallResource(rp.type, None, rp.label_selector), <<>>)
             ELSE stop([error |-> Msg("Invalid resource type: {}. Must be 'server' or 'label_selector'",
                                      <<>>, <<rp.type>>)], <<>>)

Range(s) == {s[j] : j \in 1..Len(s)}

\* client.firewalls.create(name, rules, labels, resources)
FirewallsCreate(p, id, rules, resources) ==
    [p EXCEPT !.firewalls[id] =
        [exists |-> TRUE,
         rules |-> IF rules = NoneList THEN <<>> ELSE rules[1],
         applied_to |-> IF resources = NoneList THEN {} ELSE Range(resources[1])]]

create_firewall(p, params, failAt, exc) ==
    TryExcept(
        LET rules == IF TruthyList(params.rules)
                     THEN Some([j \in 1..Len(params.rules[1]) |-> FirewallRule(params.rules[1][j])])
                     ELSE NoneList
            rs == IF TruthyList(params.resources)
                  THEN ResolveResources(p, params.resources[1], 1, 1, failAt)
                  ELSE [kind |-> "ok", value |-> EmptyDict, calls |-> <<>>, resources |-> <<>>]
            resources == IF TruthyList(params.resources) THEN Some(rs.resources) ELSE NoneList
            free == {f \in FirewallIds : ~FirewallExists(p, f)}
            create == Mutation("firewalls.create", None, failAt = Len(rs.calls) + 1 \/ free = {})
                      @@ [rules |-> rules, resources |-> resources]
            after == FirewallsCreate(p, Min(free), rules, resources)
            actions == IF rules = NoneList /\ resources = NoneList THEN <<>>
                       ELSE <<ActionDict("set_firewall_rules")>>
        IN  IF rs.kind = "raise" THEN Raise(exc, rs.calls, p)
            ELSE IF rs.kind = "return" THEN Return(rs.value, rs.calls, p)
            ELSE IF create.out = "raise" THEN Raise(exc, rs.calls \o <<create>>, p)
            ELSE Return([firewall |-> firewall_to_dict(FirewallObject(after, Min(free))),
                         actions |-> ActionList(actions)],
                        rs.calls \o <<create>>, after),
        "Failed to create firewall: {}")

update_firewall(p, firewall_id, failAt, exc) ==
    TryExcept(
        LET c1 == GetById("firewalls.get_by_id", FirewallExists(p, firewall_id), firewall_id, failAt = 1)
            c2 == Mutation("firewalls.update", firewall_id, failAt = 2)
        IN  IF c1.out = "raise" THEN Raise(exc, <<c1>>, p)
            ELSE IF c1.out = "none"
            THEN Return(NotFound("Firewall with ID {} not found", firewall_id), <<c1>>, p)
            ELSE IF c2.out = "raise" THEN Raise(exc, <<c1, c2>>, p)
            ELSE Return([firewall |-> firewall_to_dict(FirewallObject(p, firewall_id))],
                        <<c1, c2>>, p),
        "Failed to update firewall: {}")

\* client.firewalls.delete(firewall)
FirewallsDelete(p, id) == [p EXCEPT !.firewalls[id] = NoFirewall]

delete_firewall(p, firewall_id, failAt, exc) ==
    TryExcept(
        LET c1 == GetById("firewalls.get_by_id", FirewallExists(p, firewall_id), firewall_id, failAt = 1)
            c2 == Mutation("firewalls.delete", firewall_id, failAt = 2)
        IN  IF c1.out = "raise" THEN Raise(exc, <<c1>>, p)
            ELSE IF c1.out = "none"
            THEN Return(NotFound("Firewall with ID {} not found", firewall_id), <<c1>>, p)
            ELSE IF c2.out = "raise" THEN Raise(exc, <<c1, c2>>, p)
            ELSE Return([success |-> TRUE], <<c1, c2>>, FirewallsDelete(p, firewall_id)),
        "Failed to delete firewall: {}")

\* client.firewalls.set_rules(firewall, rules)
FirewallsSetRules(p, id, rules) == [p EXCEPT !.firewalls[id].rules = rules]

\* the mutant that, like create_firewall, sets rules only `if params.rules:`
set_firewall_rules_if_rules(p, params, failAt, exc) ==
    TryExcept(
        LET c1 == GetById("firewalls.get_by_id", FirewallExists(p, params.firewall_id),
                          params.firewall_id, failAt = 1)
            rules == [j \in 1..Len(params.rules) |-> FirewallRule(params.rules[j])]
            c2 == Mutation("firewalls.set_rules", params.firewall_id, failAt = 2)
                  @@ [rules |-> rules]
        IN  IF c1.out = "raise" THEN Raise(exc, <<c1>>, p)
            ELSE IF c1.out = "none"
            THEN Return(NotFound("Firewall with ID {} not found", params.firewall_id), <<c1>>, p)
            ELSE IF params.rules = <<>>
            THEN Return([success |-> TRUE, actions |-> NoneList], <<c1>>, p)
            ELSE IF c2.out = "raise" THEN Raise(exc, <<c1, c2>>, p)
            ELSE Return([success |-> TRUE,
                         actions |-> ActionList(<<ActionDict("set_firewall_rules")>>)],
                        <<c1, c2>>, FirewallsSetRules(p, params.firewall_id, rules)),
        "Failed to set firewall rules: {}")

set_firewall_rules(p, params, failAt, exc) ==
    TryExcept(
        LET c1 == GetById("firewalls.get_by_id", FirewallExists(p, params.firewall_id),
                          params.firewall_id, failAt = 1)
            rules == [j \in 1..Len(params.rules) |-> FirewallRule(params.rules[j])]
            c2 == Mutation("firewalls.set_rules", params.firewall_id, failAt = 2)
                  @@ [rules |-> rules]
        IN  IF c1.out = "raise" THEN Raise(exc, <<c1>>, p)
            ELSE IF c1.out = "none"
            THEN Return(NotFound("Firewall with ID {} not found", params.firewall_id), <<c1>>, p)
            ELSE IF c2.out = "raise" THEN Raise(exc, <<c1, c2>>, p)
            ELSE Return([success |-> TRUE,
                         actions |-> ActionList(<<ActionDict("set_firewall_rules")>>)],
                        <<c1, c2>>, FirewallsSetRules(p, params.firewall_id, rules)),
        "Failed to set firewall rules: {}")

\* client.firewalls.apply_to_resources(firewall, resources)
FirewallsApply(p, id, resources) ==
    [p EXCEPT !.firewalls[id].applied_to = @ \cup Range(resources)]

\* client.firewalls.remove_from_resources(firewall, resources)
FirewallsRemove(p, id, resources) ==
    [p EXCEPT !.firewalls[id].applied_to = @ \ Range(resources)]

apply_firewall_to_resources(p, params, failAt, exc) ==
    TryExcept(
        LET c1 == GetById("firewalls.get_by_id", FirewallExists(p, params.firewall_id),
                          params.firewall_id, failAt = 1)
            rs == ResolveResources(p, params.resources, 1, 2, failAt)
            c2 == Mutation("firewalls.apply_to_resources", params.firewall_id,
                           failAt = Len(rs.calls) + 2)
                  @@ [resources |-> rs.resources]
            actions == [j \in 1..Len(rs.resources) |-> ActionDict("apply_firewall")]
        IN  IF c1.out = "raise" THEN Raise(exc, <<c1>>, p)
            ELSE IF c1.out = "none"
            THEN Return(NotFound("Firewall with ID {} not found", params.firewall_id), <<c1>>, p)
            ELSE IF rs.kind = "raise" THEN Raise(exc, <<c1>> \o rs.calls, p)
            ELSE IF rs.kind = "return" THEN Return(rs.value, <<c1>> \o rs.calls, p)
            ELSE IF c2.out = "raise" THEN Raise(exc, <<c1>> \o rs.calls \o <<c2>>, p)
            ELSE Return([success |-> TRUE, actions |-> ActionList(actions)],
                        <<c1>> \o rs.calls \o <<c2>>,
                        FirewallsApply(p, params.firewall_id, rs.resources)),
        "Failed to apply firewall to resources: {}")

remove_firewall_from_resources(p, params, failAt, exc) ==
    TryExcept(
        LET c1 == GetById("firewalls.get_by_id", FirewallExists(p, params.firewall_id),
                          params.firewall_id, failAt = 1)
            rs == ResolveResources(p, params.resources, 1, 2, failAt)
            c2 == Mutation("firewalls.remove_from_resources", params.firewall_id,
                           failAt = Len(rs.calls) + 2)
                  @@ [resources |-> rs.resources]
            actions == [j \in 1..Len(rs.resources) |-> ActionDict("remove_firewall")]
        IN  IF c1.out = "raise" THEN Raise(exc, <<c1>>, p)
            ELSE IF c1.out = "none"
            THEN Return(NotFound("Firewall with ID {} not found", params.firewall_id), <<c1>>, p)
            ELSE IF rs.kind = "raise" THEN Raise(exc, <<c1>> \o rs.calls, p)
            ELSE IF rs.kind = "return" THEN Return(rs.value, <<c1>> \o rs.calls, p)
            ELSE IF c2.out = "raise" THEN Raise(exc, <<c1>> \o rs.calls \o <<c2>>, p)
            ELSE Return([success |-> TRUE, actions |-> ActionList(actions)],
                        <<c1>> \o rs.calls \o <<c2>>,
                        FirewallsRemove(p, params.firewall_id, rs.resources)),
        "Failed to remove firewall from resources: {}")

(***************************************************************************)
(* Volume handlers.                                                        *)
(***************************************************************************)
\* the Volume object the client returns for an existing volume
VolumeObject(p, id) ==
    [id |-> id, size |-> p.volumes[id].size, location |-> Named(LocationNames[1]),
     server |-> IF p.volumes[id].server # None THEN Some([id |-> p.volumes[id].server])
                ELSE NoneList,
     protection |-> Some([delete |-> FALSE]), created |-> Some(Created)]

\* the mutant that reads the location's name without testing the location
volume_to_dict_unguarded(volume) ==
    [id |-> volume.id, size |-> volume.size,
     location |-> IF volume.location # NoneList THEN volume.location[1].name
                  ELSE AttributeError,
     server |-> IF volume.server # NoneList THEN volume.server[1].id ELSE None,
     protection |-> [delete |-> IF volume.protection # NoneList
                                THEN volume.protection[1].delete ELSE FALSE],
     created |-> IF volume.created # NoneList THEN Isoformat(volume.created[1]) ELSE NoneStr]

volume_to_dict(volume) ==
    [id |-> volume.id, size |-> volume.size,
     location |-> IF volume.location # NoneList THEN volume.location[1].name ELSE NoneStr,
     server |-> IF volume.server # NoneList THEN volume.server[1].id ELSE None,
     protection |-> [delete |-> IF volume.protection # NoneList
                                THEN volume.protection[1].delete ELSE FALSE],
     created |-> IF volume.created # NoneList THEN Isoformat(volume.created[1]) ELSE NoneStr]

list_volumes(p, failAt, exc) ==
    ListHandler(p, "volumes.get_all",
        [volumes |-> {volume_to_dict(VolumeObject(p, v)) : v \in {x \in VolumeIds : VolumeExists(p, x)}}],
        failAt, exc, "Failed to list volumes: {}")

\* the mutant that answers with the size it has seen when the volume was
\* smallest, not with the size of the volume it has just fetched
get_volume_remembered(p, volume_id, failAt, exc) ==
    TryExcept(
        LET c1 == GetById("volumes.get_by_id", VolumeExists(p, volume_id), volume_id, failAt = 1)
            remembered == [VolumeObject(p, volume_id) EXCEPT !.size = 1]
        IN  IF c1.out = "raise" THEN Raise(exc, <<c1>>, p)
            ELSE IF c1.out = "none"
            THEN Return(NotFound("Volume with ID {} not found", volume_id), <<c1>>, p)
            ELSE Return([volume |-> volume_to_dict(remembered)], <<c1>>, p),
        "Failed to get volume: {}")
get_volume(p, volume_id, failAt, exc) ==
    TryExcept(
        LET c1 == GetById("volumes.get_by_id", VolumeExists(p, volume_id), volume_id, failAt = 1)
        IN  IF c1.out = "raise" THEN Raise(exc, <<c1>>, p)
            ELSE IF c1.out = "none"
            THEN Return(NotFound("Volume with ID {} not found", volume_id), <<c1>>, p)
            ELSE Return([volume |-> volume_to_dict(VolumeObject(p, volume_id))], <<c1>>, p),
        "Failed to get volume: {}")

\* client.volumes.create(name, size, location, server, ...)
VolumesCreate(p, id, size, server) ==
    [p EXCEPT !.volumes[id] = [exists |-> TRUE, size |-> size, server |-> server]]

create_volume(p, params, failAt, exc) ==
    TryExcept(
        LET byName == TruthyStr(params.location)
            c1 == GetByName("locations.get_by_name", LocationNames, params.location, failAt = 1)
            n == IF byName THEN 2 ELSE 1
            byId == TruthyInt(params.server)
            c2 == GetById("servers.get_by_id", ServerExists(p, params.server), params.server,
                          failAt = n)
            lookups == (IF byName THEN <<c1>> ELSE <<>>) \o (IF byId THEN <<c2>> ELSE <<>>)
            location == IF byName THEN params.location ELSE NoneStr
            server == IF byId THEN params.server ELSE None
            free == {v \in VolumeIds : ~VolumeExists(p, v)}
            create == Mutation("volumes.create", None, failAt = Len(lookups) + 1 \/ free = {})
                      @@ [size |-> params.size, location |-> location, server |-> server]
            after == VolumesCreate(p, Min(free), params.size, server)
        IN  IF byName /\ c1.out = "raise" THEN Raise(exc, <<c1>>, p)
            ELSE IF byName /\ c1.out = "none"
            THEN Return(NameNotFound("Location '{}' not found", params.location, <<>>),
                        <<c1>>, p)
            ELSE IF byId /\ c2.out = "raise" THEN Raise(exc, lookups, p)
            ELSE IF byId /\ c2.out = "none"
            THEN Return(NotFound("Server with ID {} not found", params.server), lookups, p)
            ELSE IF create.out = "raise" THEN Raise(exc, lookups \o <<create>>, p)
            ELSE Return([volume |-> volume_to_dict(VolumeObject(after, Min(free))),
                         action |-> ActionDict("create_volume"),
                         next_actions |-> ActionList(IF byId THEN <<ActionDict("attach_volume")>>
                                                     ELSE <<>>)],
                        lookups \o <<create>>, after),
        "Failed to create volume: {}")

\* client.volumes.delete(volume)
VolumesDelete(p, id) == [p EXCEPT !.volumes[id] = NoVolume]

delete_volume(p, volume_id, failAt, exc) ==
    TryExcept(
        LET c1 == GetById("volumes.get_by_id", VolumeExists(p, volume_id), volume_id, failAt = 1)
            c2 == Mutation("volumes.delete", volume_id, failAt = 2)
        IN  IF c1.out = "raise" THEN Raise(exc, <<c1>>, p)
            ELSE IF c1.out = "none"
            THEN Return(NotFound("Volume with ID {} not found", volume_id), <<c1>>, p)
            ELSE IF c2.out = "raise" THEN Raise(exc, <<c1, c2>>, p)
            ELSE Return([success |-> TRUE], <<c1, c2>>, VolumesDelete(p, volume_id)),
        "Failed to delete volume: {}")

\* client.volumes.attach(volume, server, automount)
VolumesAttach(p, id, server) == [p EXCEPT !.volumes[id].server = server]

\* the mutant that looks up the server before the volume
attach_volume_server_first(p, params, failAt, exc) ==
    TryExcept(
        LET c1 == GetById("servers.get_by_id", ServerExists(p, params.server_id),
                          params.server_id, failAt = 1)
            c2 == GetById("volumes.get_by_id", VolumeExists(p, params.volume_id),
                          params.volume_id, failAt = 2)
            c3 == Mutation("volumes.attach", params.volume_id, failAt = 3)
                  @@ [server |-> params.server_id]
        IN  IF c1.out = "raise" THEN Raise(exc, <<c1>>, p)
            ELSE IF c1.out = "none"
            THEN Return(NotFound("Server with ID {} not found", params.server_id), <<c1>>, p)
            ELSE IF c2.out = "raise" THEN Raise(exc, <<c1, c2>>, p)
            ELSE IF c2.out = "none"
            THEN Return(NotFound("Volume with ID {} not found", params.volume_id), <<c1, c2>>, p)
            ELSE IF c3.out = "raise" THEN Raise(exc, <<c1, c2, c3>>, p)
            ELSE Return([success |-> TRUE, action |-> ActionDict("attach_volume")],
                        <<c1, c2, c3>>, VolumesAttach(p, params.volume_id, params.server_id)),
        "Failed to attach volume: {}")

attach_volume(p, params, failAt, exc) ==
    TryExcept(
        LET c1 == GetById("volumes.get_by_id", VolumeExists(p, params.volume_id),
                          params.volume_id, failAt = 1)
            c2 == GetById("servers.get_by_id", ServerExists(p, params.server_id),
                          params.server_id, failAt = 2)
            c3 == Mutation("volumes.attach", params.volume_id, failAt = 3)
                  @@ [server |-> params.server_id]
        IN  IF c1.out = "raise" THEN Raise(exc, <<c1>>, p)
            ELSE IF c1.out = "none"
            THEN Return(NotFound("Volume with ID {} not found", params.volume_id), <<c1>>, p)
            ELSE IF c2.out = "raise" THEN Raise(exc, <<c1, c2>>, p)
            ELSE IF c2.out = "none"
            THEN Return(NotFound("Server with ID {} not found", params.server_id), <<c1, c2>>, p)
            ELSE IF c3.out = "raise" THEN Raise(exc, <<c1, c2, c3>>, p)
            ELSE Return([success |-> TRUE, action |-> ActionDict("attach_volume")],
                        <<c1, c2, c3>>, VolumesAttach(p, params.volume_id, params.server_id)),
        "Failed to attach volume: {}")

\* client.volumes.detach(volume)
VolumesDetach(p, id) == [p EXCEPT !.volumes[id].server = None]

\* `if not volume.server:` on the volume the handler has fetched, with the
\* mutant that takes every volume to be attached
NotAttachedNever(volume) == FALSE
NotAttached(volume) == volume.server = NoneList

\* the mutant that tries the provider call a second time when it has failed
detach_volume_retry(p, volume_id, failAt, exc) ==
    TryExcept(
        LET c1 == GetById("volumes.get_by_id", VolumeExists(p, volume_id), volume_id, failAt = 1)
            c2 == Mutation("volumes.detach", volume_id, failAt = 2)
            c3 == Mutation("volumes.detach", volume_id, FALSE)
        IN  IF c1.out = "raise" THEN Raise(exc, <<c1>>, p)
            ELSE IF c1.out = "none"
            THEN Return(NotFound("Volume with ID {} not found", volume_id), <<c1>>, p)
            ELSE IF NotAttached(VolumeObject(p, volume_id))
            THEN Return([error |-> Msg("Volume with ID {} is not attached to any server",
                                       <<volume_id>>, <<>>)], <<c1>>, p)
            ELSE IF c2.out = "raise"
            THEN Return([success |-> TRUE, action |-> ActionDict("detach_volume")],
                        <<c1, c2, c3>>, VolumesDetach(p, volume_id))
            ELSE Return([success |-> TRUE, action |-> ActionDict("detach_volume")],
                        <<c1, c2>>, VolumesDetach(p, volume_id)),
        "Failed to detach volume: {}")
\* the mutant whose answer depends on what an earlier invocation has left
\* behind (an SSH key created before), which none of its own provider calls
\* returns
detach_volume_memo(p, volume_id, failAt, exc) ==
    TryExcept(
        LET c1 == GetById("volumes.get_by_id", VolumeExists(p, volume_id), volume_id, failAt = 1)
            c2 == Mutation("volumes.detach", volume_id, failAt = 2)
            memo == \E k \in SSHKeyIds : SSHKeyExists(p, k)
        IN  IF c1.out = "raise" THEN Raise(exc, <<c1>>, p)
            ELSE IF c1.out = "none"
            THEN Return(NotFound("Volume with ID {} not found", volume_id), <<c1>>, p)
            ELSE IF memo \/ NotAttached(VolumeObject(p, volume_id))
            THEN Return([error |-> Msg("Volume with ID {} is not attached to any server",
                                       <<volume_id>>, <<>>)], <<c1>>, p)
            ELSE IF c2.out = "raise" THEN Raise(exc, <<c1, c2>>, p)
            ELSE Return([success |-> TRUE, action |-> ActionDict("detach_volume")],
                        <<c1, c2>>, VolumesDetach(p, volume_id)),
        "Failed to detach volume: {}")
detach_volume(p, volume_id, failAt, exc) ==
    TryExcept(
        LET c1 == GetById("volumes.get_by_id", VolumeExists(p, volume_id), volume_id, failAt = 1)
            c2 == Mutation("volumes.detach", volume_id, failAt = 2)
        IN  IF c1.out = "raise" THEN Raise(exc, <<c1>>, p)
            ELSE IF c1.out = "none"
            THEN Return(NotFound("Volume with ID {} not found", volume_id), <<c1>>, p)
            ELSE IF NotAttached(VolumeObject(p, volume_id))
            THEN Return([error |-> Msg("Volume with ID {} is not attached to any server",
                                       <<volume_id>>, <<>>)], <<c1>>, p)
            ELSE IF c2.out = "raise" THEN Raise(exc, <<c1, c2>>, p)
            ELSE Return([success |-> TRUE, action |-> ActionDict("detach_volume")],
                        <<c1, c2>>, VolumesDetach(p, volume_id)),
        "Failed to detach volume: {}")

\* client.volumes.resize(volume, size)
VolumesResize(p, id, size) == [p EXCEPT !.volumes[id].size = size]

\* `if params.size <= volume.size:` on the volume the handler has fetched,
\* with the mutant that lets an equal size through
\* and the mutant that lets every size through
NotGrowingStrict(size, volume) == size < volume.size
NotGrowingNever(size, volume) == FALSE
NotGrowing(size, volume) == size <= volume.size

resize_volume(p, params, failAt, exc) ==
    TryExcept(
        LET c1 == GetById("volumes.get_by_id", VolumeExists(p, params.volume_id),
                          params.volume_id, failAt = 1)
            volume == VolumeObject(p, params.volume_id)
            c2 == Mutation("volumes.resize", params.volume_id, failAt = 2)
                  @@ [size |-> params.size]
        IN  IF c1.out = "raise" THEN Raise(exc, <<c1>>, p)
            ELSE IF c1.out = "none"
            THEN Return(NotFound("Volume with ID {} not found", params.volume_id), <<c1>>, p)
            ELSE IF NotGrowing(params.size, volume)
            THEN Return([error |-> Msg("New size ({} GB) must be greater than current size ({} GB)",
                                       <<params.size, volume.size>>, <<>>)], <<c1>>, p)
            ELSE IF c2.out = "raise" THEN Raise(exc, <<c1, c2>>, p)
            ELSE Return([success |-> TRUE, action |-> ActionDict("resize_volume")],
                        <<c1, c2>>, VolumesResize(p, params.volume_id, params.size)),
        "Failed to resize volume: {}")

(***************************************************************************)
(* SSH key handlers.                                                       *)
(***************************************************************************)
\* the names and public keys a request gives to an SSH key
KeyNames == {"key", "renamed"}
PublicKeys == {"ssh-ed25519 AAAA", "ssh-rsa BBBB"}

\* the SSHKey object the client returns for an existing key
SSHKeyObject(p, id) ==
    [id |-> id, name |-> p.ssh_keys[id].name, public_key |-> p.ssh_keys[id].public_key,
     created |-> Some(Created)]

ssh_key_to_dict(ssh_key) ==
    [id |-> ssh_key.id, name |-> ssh_key.name, public_key |-> ssh_key.public_key,
     created |-> IF ssh_key.created # NoneList THEN Isoformat(ssh_key.created[1])
                 ELSE NoneStr]

list_ssh_keys(p, failAt, exc) ==
    ListHandler(p, "ssh_keys.get_all",
        [ssh_keys |-> {ssh_key_to_dict(SSHKeyObject(p, k)) :
                           k \in {i \in SSHKeyIds : SSHKeyExists(p, i)}}],
        failAt, exc, "Failed to list SSH keys: {}")

get_ssh_key(p, ssh_key_id, failAt, exc) ==
    TryExcept(
        LET c1 == GetById("ssh_keys.get_by_id", SSHKeyExists(p, ssh_key_id), ssh_key_id, failAt = 1)
        IN  IF c1.out = "raise" THEN Raise(exc, <<c1>>, p)
            ELSE IF c1.out = "none"
            THEN Return(NotFound("SSH key with ID {} not found", ssh_key_id), <<c1>>, p)
            ELSE Return([ssh_key |-> ssh_key_to_dict(SSHKeyObject(p, ssh_key_id))], <<c1>>, p),
        "Failed to get SSH key: {}")

\* client.ssh_keys.create(name, public_key, labels)
SSHKeysCreate(p, id, name, public_key) ==
    [p EXCEPT !.ssh_keys[id] = [exists |-> TRUE, name |-> name, public_key |-> public_key]]

create_ssh_key(p, params, failAt, exc) ==
    TryExcept(
        LET free == {k \in SSHKeyIds : ~SSHKeyExists(p, k)}
            c1 == [Mutation("ssh_keys.create", None, failAt = 1 \/ free = {})
                      EXCEPT !.name = params.name]
                  @@ [public_key |-> params.public_key, labels |-> params.labels]
            after == SSHKeysCreate(p, Min(free), params.name, params.public_key)
        IN  IF c1.out = "raise" THEN Raise(exc, <<c1>>, p)
            ELSE Return([ssh_key |-> ssh_key_to_dict(SSHKeyObject(after, Min(free)))],
                        <<c1>>, after),
        "Failed to create SSH key: {}")

\* client.ssh_keys.update(ssh_key, name, labels)
SSHKeysUpdate(p, id, name) == [p EXCEPT !.ssh_keys[id].name = name]

\* the mutant that hands the provider a public key with the new name
update_ssh_key_rekeying(p, params, failAt, exc) ==
    TryExcept(
        LET c1 == GetById("ssh_keys.get_by_id", SSHKeyExists(p, params.ssh_key_id),
                          params.ssh_key_id, failAt = 1)
            c2 == [Mutation("ssh_keys.update", params.ssh_key_id, failAt = 2)
                      EXCEPT !.name = params.name]
                  @@ [public_key |-> "ssh-rsa CCCC", labels |-> params.labels]
            after == [p EXCEPT !.ssh_keys[params.ssh_key_id].name = params.name,
                               !.ssh_keys[params.ssh_key_id].public_key = "ssh-rsa CCCC"]
        IN  IF c1.out = "raise" THEN Raise(exc, <<c1>>, p)
            ELSE IF c1.out = "none"
            THEN Return(NotFound("SSH key with ID {} not found", params.ssh_key_id), <<c1>>, p)
            ELSE IF c2.out = "raise" THEN Raise(exc, <<c1, c2>>, p)
            ELSE Return([ssh_key |-> ssh_key_to_dict(SSHKeyObject(after, params.ssh_key_id))],
                        <<c1, c2>>, after),
        "Failed to update SSH key: {}")
update_ssh_key(p, params, failAt, exc) ==
    TryExcept(
        LET c1 == GetById("ssh_keys.get_by_id", SSHKeyExists(p, params.ssh_key_id),
                          params.ssh_key_id, failAt = 1)
            c2 == [Mutation("ssh_keys.update", params.ssh_key_id, failAt = 2)
                      EXCEPT !.name = params.name]
                  @@ [labels |-> params.labels]
            after == SSHKeysUpdate(p, params.ssh_key_id, params.name)
        IN  IF c1.out = "raise" THEN Raise(exc, <<c1>>, p)
            ELSE IF c1.out = "none"
            THEN Return(NotFound("SSH key with ID {} not found", params.ssh_key_id), <<c1>>, p)
            ELSE IF c2.out = "raise" THEN Raise(exc, <<c1, c2>>, p)
            ELSE Return([ssh_key |-> ssh_key_to_dict(SSHKeyObject(after, params.ssh_key_id))],
                        <<c1, c2>>, after),
        "Failed to update SSH key: {}")

\* client.ssh_keys.delete(ssh_key)
SSHKeysDelete(p, id) == [p EXCEPT !.ssh_keys[id] = NoSSHKey]

delete_ssh_key(p, ssh_key_id, failAt, exc) ==
    TryExcept(
        LET c1 == GetById("ssh_keys.get_by_id", SSHKeyExists(p, ssh_key_id), ssh_key_id, failAt = 1)
            c2 == Mutation("ssh_keys.delete", ssh_key_id, failAt = 2)
        IN  IF c1.out = "raise" THEN Raise(exc, <<c1>>, p)
            ELSE IF c1.out = "none"
            THEN Return(NotFound("SSH key with ID {} not found", ssh_key_id), <<c1>>, p)
            ELSE IF c2.out = "raise" THEN Raise(exc, <<c1, c2>>, p)
            ELSE Return([success |-> TRUE], <<c1, c2>>, SSHKeysDelete(p, ssh_key_id)),
        "Failed to delete SSH key: {}")

(***************************************************************************)
(* The state machine.                                                      *)
(***************************************************************************)
Idle ==
    [op |-> "none", params |-> EmptyDict, raised |-> FALSE,
     result |-> EmptyDict, calls |-> <<>>]

\* two invocations of resize_volume that the dispatcher runs side by side,
\* and an invocation that is not under way
Invocations == {1, 2}
NotRunning == [pc |-> "idle", params |-> EmptyDict, volume |-> NoneList, result |-> EmptyDict]

Init ==
    /\ servers = {}
    /\ ssh_keys = [k \in SSHKeyIds |-> NoSSHKey]
    /\ volumes = [v \in VolumeIds |-> NoVolume]
    /\ firewalls = [f \in FirewallIds |-> NoFirewall]
    /\ action_status = "running"
    /\ process = Serving
    /\ last = Idle
    /\ resizes = [i \in Invocations |-> NotRunning]

\* the state in which the module is about to be imported, with some
\* configuration file on disk
InitStartup ==
    /\ servers = {}
    /\ ssh_keys = [k \in SSHKeyIds |-> NoSSHKey]
    /\ volumes = [v \in VolumeIds |-> NoVolume]
    /\ firewalls = [f \in FirewallIds |-> NoFirewall]
    /\ action_status = "running"
    /\ process \in {[Importing(config) EXCEPT !.environ_port = e, !.port_arg = a] :
                        config \in Configs, e \in PortsOfEnviron, a \in PortArgs}
    /\ last = Idle
    /\ resizes = [i \in Invocations |-> NotRunning]

\* client = Client(token=authenticate()): the call of authenticate; an
\* exception ends the import and with it the process
Authenticate ==
    /\ process.phase = "importing"
    /\ LET r == authenticate(process.config)
       IN  process' = IF r.raised
                      THEN [process EXCEPT !.phase = "aborted", !.error = r.error]
                      ELSE [process EXCEPT !.phase = "authenticated", !.token = r.token]
    /\ UNCHANGED <<servers, ssh_keys, volumes, firewalls, action_status, last, resizes>>

\* client = Client(token=...)
ConstructClient ==
    /\ process.phase = "authenticated"
    /\ process' = [process EXCEPT !.phase = "client", !.client = TRUE]
    /\ UNCHANGED <<servers, ssh_keys, volumes, firewalls, action_status, last, resizes>>

\* mcp = FastMCP(...) and the @mcp.tool() decorators
RegisterTools ==
    /\ process.phase = "client"
    /\ process' = [process EXCEPT !.phase = "registered", !.tools = TRUE,
                                  !.mcp_port = ConstructedPort(process.environ_port)]
    /\ UNCHANGED <<servers, ssh_keys, volumes, firewalls, action_status, last, resizes>>

\* main(): start_server(...) runs mcp, which dispatches requests from now on
StartServer ==
    /\ process.phase = "registered"
    /\ LET port == StartPort(process.environ_port, process.port_arg)
       IN  process' = [process EXCEPT !.phase = "serving", !.mcp_port = port,
                                      !.announced = port]
    /\ UNCHANGED <<servers, ssh_keys, volumes, firewalls, action_status, last, resizes>>

\* the dispatcher hands a request to a handler when the process serves and
\* the invocation before it has returned
Accepting == process.phase = "serving" /\ last = Idle

\* one invocation of tool `op` with `params`, whose handler produced r
Invoke(op, params, r) ==
    /\ Accepting
    /\ last' = [op |-> op, params |-> params, raised |-> r.raised,
                result |-> r.value, calls |-> r.calls]
    /\ servers' = r.prov.servers
    /\ ssh_keys' = r.prov.ssh_keys
    /\ volumes' = r.prov.volumes
    /\ firewalls' = r.prov.firewalls
    /\ UNCHANGED <<action_status, process, resizes>>

\* the dispatcher hands the returned dictionary to the caller and waits for
\* the next request
Reply ==
    /\ last # Idle
    /\ last' = Idle
    /\ UNCHANGED <<servers, ssh_keys, volumes, firewalls, action_status, process, resizes>>

\* between two invocations the provider gets on with its work: the Actions
\* it returns from now on are under way, or already finished
ProviderProceeds ==
    /\ last = Idle
    /\ action_status' \in ActionStatuses \ {action_status}
    /\ UNCHANGED <<servers, ssh_keys, volumes, firewalls, process, last, resizes>>

\* what somebody else can do to the project at the provider (the console, the
\* CLI, another client): create, change and delete its resources
ExternalChanges(p) ==
    {ServersCreate(p, s) : s \in {x \in ServerIds : ~ServerExists(p, x)}}
    \cup {ServersDelete(p, s) : s \in {x \in ServerIds : ServerExists(p, x)}}
    \cup {VolumesCreate(p, v, size, server) :
              v \in {x \in VolumeIds : ~VolumeExists(p, x)}, size \in 1..MaxSize,
              server \in {None} \cup {x \in ServerIds : ServerExists(p, x)}}
    \cup UNION {{VolumesResize(p, v, size) : size \in {z \in 1..MaxSize : z > p.volumes[v].size}} :
                   v \in {x \in VolumeIds : VolumeExists(p, x)}}
    \cup {VolumesDelete(p, v) : v \in {x \in VolumeIds : VolumeExists(p, x)}}
    \cup {SSHKeysCreate(p, k, name, public_key) :
              k \in {x \in SSHKeyIds : ~SSHKeyExists(p, x)}, name \in KeyNames,
              public_key \in PublicKeys}
    \cup {SSHKeysUpdate(p, k, name) :
              k \in {x \in SSHKeyIds : SSHKeyExists(p, x)}, name \in KeyNames}
    \cup {SSHKeysDelete(p, k) : k \in {x \in SSHKeyIds : SSHKeyExists(p, x)}}
    \cup {FirewallsCreate(p, f, Some(<<FirewallRule(RuleFull)>>), NoneList) :
              f \in {x \in FirewallIds : ~FirewallExists(p, x)}}
    \cup {FirewallsSetRules(p, f, rules) :
              f \in {x \in FirewallIds : FirewallExists(p, x)},
              rules \in {<<>>, <<FirewallRule(RuleBare)>>}}
    \cup {FirewallsDelete(p, f) : f \in {x \in FirewallIds : FirewallExists(p, x)}}

\* between two invocations the provider's state changes without this process
ExternalChange ==
    /\ last = Idle
    /\ \E q \in ExternalChanges(Provider) \ {Provider} :
          /\ servers' = q.servers
          /\ ssh_keys' = q.ssh_keys
          /\ volumes' = q.volumes
          /\ firewalls' = q.firewalls
    /\ UNCHANGED <<action_status, process, last, resizes>>

ListServers ==
    /\ Accepting
    /\ \E f \in 0..1, e \in Exceptions :
        Invoke("list_servers", EmptyDict, list_servers(Provider, f, e))

GetServer ==
    /\ Accepting
    /\ \E id \in ServerIdArgs, f \in 0..1, e \in Exceptions :
        Invoke("get_server", [server_id |-> id], get_server(Provider, id, f, e))

CreateServer ==
    /\ Accepting
    /\ \E st \in {"cx11", "cx99"}, im \in {"ubuntu-22.04", "plan9"},
       loc \in {Omitted, "fsn1", "mars"},
       keys \in {NoneList} \cup {Some(s) : s \in SeqsUpTo(SSHKeyIdArgs, MaxKeys)},
       f \in 0..(7 + MaxKeys), e \in Exceptions :
        LET params == CreateServerParams(st, im, loc, keys)
        IN  Invoke("create_server", params, create_server(Provider, params, f, e))

DeleteServer ==
    /\ Accepting
    /\ \E id \in ServerIdArgs, f \in 0..2, e \in Exceptions :
        Invoke("delete_server", [server_id |-> id], delete_server(Provider, id, f, e))

PowerOn ==
    /\ Accepting
    /\ \E id \in ServerIdArgs, f \in 0..2, e \in Exceptions :
        Invoke("power_on", [server_id |-> id], power_on(Provider, id, f, e))

PowerOff ==
    /\ Accepting
    /\ \E id \in ServerIdArgs, f \in 0..2, e \in Exceptions :
        Invoke("power_off", [server_id |-> id], power_off(Provider, id, f, e))

Reboot ==
    /\ Accepting
    /\ \E id \in ServerIdArgs, f \in 0..2, e \in Exceptions :
        Invoke("reboot", [server_id |-> id], reboot(Provider, id, f, e))

ListImages ==
    /\ Accepting
    /\ \E f \in 0..1, e \in Exceptions :
        Invoke("list_images", EmptyDict, list_images(Provider, f, e))

ListServerTypes ==
    /\ Accepting
    /\ \E f \in 0..1, e \in Exceptions :
        Invoke("list_server_types", EmptyDict, list_server_types(Provider, f, e))

ListLocations ==
    /\ Accepting
    /\ \E f \in 0..1, e \in Exceptions :
        Invoke("list_locations", EmptyDict, list_locations(Provider, f, e))

ListFirewalls ==
    /\ Accepting
    /\ \E f \in 0..1, e \in Exceptions :
        Invoke("list_firewalls", EmptyDict, list_firewalls(Provider, f, e))

GetFirewall ==
    /\ Accepting
    /\ \E id \in FirewallIdArgs, f \in 0..1, e \in Exceptions :
        Invoke("get_firewall", [firewall_id |-> id], get_firewall(Provider, id, f, e))

CreateFirewall ==
    /\ Accepting
    /\ \E rules \in {NoneList, Some(<<>>), Some(<<RuleFull, RuleBare>>)},
       resources \in {NoneList} \cup {Some(s) : s \in SeqsUpTo(ResourceParams, MaxResources)},
       f \in 0..(MaxResources + 1), e \in Exceptions :
        LET params == [rules |-> rules, resources |-> resources]
        IN  Invoke("create_firewall", params, create_firewall(Provider, params, f, e))

UpdateFirewall ==
    /\ Accepting
    /\ \E id \in FirewallIdArgs, f \in 0..2, e \in Exceptions :
        Invoke("update_firewall", [firewall_id |-> id], update_firewall(Provider, id, f, e))

DeleteFirewall ==
    /\ Accepting
    /\ \E id \in FirewallIdArgs, f \in 0..2, e \in Exceptions :
        Invoke("delete_firewall", [firewall_id |-> id], delete_firewall(Provider, id, f, e))

SetFirewallRules ==
    /\ Accepting
    /\ \E id \in FirewallIdArgs, rules \in SeqsUpTo(RuleParams, MaxRules),
       f \in 0..2, e \in Exceptions :
        LET params == [firewall_id |-> id, rules |-> rules]
        IN  Invoke("set_firewall_rules", params, set_firewall_rules(Provider, params, f, e))

ApplyFirewallToResources ==
    /\ Accepting
    /\ \E id \in FirewallIdArgs, resources \in SeqsUpTo(ResourceParams, MaxResources),
       f \in 0..(MaxResources + 2), e \in Exceptions :
        LET params == [firewall_id |-> id, resources |-> resources]
        IN  Invoke("apply_firewall_to_resources", params,
                   apply_firewall_to_resources(Provider, params, f, e))

RemoveFirewallFromResources ==
    /\ Accepting
    /\ \E id \in FirewallIdArgs, resources \in SeqsUpTo(ResourceParams, MaxResources),
       f \in 0..(MaxResources + 2), e \in Exceptions :
        LET params == [firewall_id |-> id, resources |-> resources]
        IN  Invoke("remove_firewall_from_resources", params,
                   remove_firewall_from_resources(Provider, params, f, e))

ListVolumes ==
    /\ Accepting
    /\ \E f \in 0..1, e \in Exceptions :
        Invoke("list_volumes", EmptyDict, list_volumes(Provider, f, e))

GetVolume ==
    /\ Accepting
    /\ \E id \in VolumeIdArgs, f \in 0..1, e \in Exceptions :
        Invoke("get_volume", [volume_id |-> id], get_volume(Provider, id, f, e))

CreateVolume ==
    /\ Accepting
    /\ \E size \in 1..MaxSize, loc \in {NoneStr, "", "fsn1", "mars"},
       server \in ServerIdArgs \cup {None}, f \in 0..3, e \in Exceptions :
        LET params == [size |-> size, location |-> loc, server |-> server]
        IN  Invoke("create_volume", params, create_volume(Provider, params, f, e))

DeleteVolume ==
    /\ Accepting
    /\ \E id \in VolumeIdArgs, f \in 0..2, e \in Exceptions :
        Invoke("delete_volume", [volume_id |-> id], delete_volume(Provider, id, f, e))

AttachVolume ==
    /\ Accepting
    /\ \E id \in VolumeIdArgs, server \in ServerIdArgs, f \in 0..3, e \in Exceptions :
        LET params == [volume_id |-> id, server_id |-> server]
        IN  Invoke("attach_volume", params, attach_volume(Provider, params, f, e))

DetachVolume ==
    /\ Accepting
    /\ \E id \in VolumeIdArgs, f \in 0..2, e \in Exceptions :
        Invoke("detach_volume", [volume_id |-> id], detach_volume(Provider, id, f, e))

ResizeVolume ==
    /\ Accepting
    /\ \E id \in VolumeIdArgs, size \in 1..MaxSize, f \in 0..2, e \in Exceptions :
        LET params == [volume_id |-> id, size |-> size]
        IN  Invoke("resize_volume", params, resize_volume(Provider, params, f, e))

ListSSHKeys ==
    /\ Accepting
    /\ \E f \in 0..1, e \in Exceptions :
        Invoke("list_ssh_keys", EmptyDict, list_ssh_keys(Provider, f, e))

GetSSHKey ==
    /\ Accepting
    /\ \E id \in SSHKeyIdArgs, f \in 0..1, e \in Exceptions :
        Invoke("get_ssh_key", [ssh_key_id |-> id], get_ssh_key(Provider, id, f, e))

CreateSSHKey ==
    /\ Accepting
    /\ \E name \in KeyNames, public_key \in PublicKeys, f \in 0..1, e \in Exceptions :
        LET params == [name |-> name, public_key |-> public_key, labels |-> NoneList]
        IN  Invoke("create_ssh_key", params, create_ssh_key(Provider, params, f, e))

UpdateSSHKey ==
    /\ Accepting
    /\ \E id \in SSHKeyIdArgs, name \in KeyNames, f \in 0..2, e \in Exceptions :
        LET params == [ssh_key_id |-> id, name |-> name, labels |-> NoneList]
        IN  Invoke("update_ssh_key", params, update_ssh_key(Provider, params, f, e))

DeleteSSHKey ==
    /\ Accepting
    /\ \E id \in SSHKeyIdArgs, f \in 0..2, e \in Exceptions :
        Invoke("delete_ssh_key", [ssh_key_id |-> id], delete_ssh_key(Provider, id, f, e))

Next ==
    \/ Reply
    \/ ListServers
    \/ GetServer
    \/ CreateServer
    \/ DeleteServer
    \/ PowerOn
    \/ PowerOff
    \/ Reboot
    \/ ListImages
    \/ ListServerTypes
    \/ ListLocations
    \/ ListFirewalls
    \/ GetFirewall
    \/ CreateFirewall
    \/ UpdateFirewall
    \/ DeleteFirewall
    \/ SetFirewallRules
    \/ ApplyFirewallToResources
    \/ RemoveFirewallFromResources
    \/ ListVolumes
    \/ GetVolume
    \/ CreateVolume
    \/ DeleteVolume
    \/ AttachVolume
    \/ DetachVolume
    \/ ResizeVolume
    \/ ListSSHKeys
    \/ GetSSHKey
    \/ CreateSSHKey
    \/ UpdateSSHKey
    \/ DeleteSSHKey

Spec == Init /\ [][Next]_vars

\* the volume tools, with the tools that create and delete the servers and
\* SSH keys they refer to
NextVolumes ==
    \/ Reply
    \/ CreateServer
    \/ DeleteServer
    \/ CreateSSHKey
    \/ DeleteSSHKey
    \/ ListVolumes
    \/ GetVolume
    \/ CreateVolume
    \/ DeleteVolume
    \/ AttachVolume
    \/ DetachVolume
    \/ ResizeVolume

SpecVolumes == Init /\ [][NextVolumes]_vars

\* the firewall tools, with the tools that create and delete the servers they
\* refer to
NextFirewalls ==
    \/ Reply
    \/ CreateServer
    \/ DeleteServer
    \/ ListFirewalls
    \/ GetFirewall
    \/ CreateFirewall
    \/ UpdateFirewall
    \/ DeleteFirewall
    \/ SetFirewallRules
    \/ ApplyFirewallToResources
    \/ RemoveFirewallFromResources

SpecFirewalls == Init /\ [][NextFirewalls]_vars

\* the tools whose provider call returns an Action, with the provider's progress
NextActions ==
    \/ Reply
    \/ ProviderProceeds
    \/ CreateServer
    \/ DeleteServer
    \/ PowerOn
    \/ PowerOff
    \/ Reboot
    \/ CreateFirewall
    \/ SetFirewallRules
    \/ ApplyFirewallToResources
    \/ RemoveFirewallFromResources
    \/ CreateVolume
    \/ AttachVolume
    \/ DetachVolume
    \/ ResizeVolume

SpecActions == Init /\ [][NextActions]_vars

\* the tools that read, with two tools that change what they read, in a
\* project that others change as well
NextReads ==
    \/ Reply
    \/ ExternalChange
    \/ ListServers
    \/ GetServer
    \/ ListImages
    \/ ListServerTypes
    \/ ListLocations
    \/ ListFirewalls
    \/ GetFirewall
    \/ ListVolumes
    \/ GetVolume
    \/ ResizeVolume
    \/ ListSSHKeys
    \/ GetSSHKey
    \/ UpdateSSHKey

SpecReads == Init /\ [][NextReads]_vars

\* the SSH key tools
NextSSHKeys ==
    \/ Reply
    \/ ListSSHKeys
    \/ GetSSHKey
    \/ CreateSSHKey
    \/ UpdateSSHKey
    \/ DeleteSSHKey

SpecSSHKeys == Init /\ [][NextSSHKeys]_vars

\* resize_volume run one provider call at a time.  ResizeFetch is the
\* handler from its entry to the point before client.volumes.resize: the
\* lookup of the volume and the check of the size against the fetched object
ResizeFetch(i) ==
    /\ process.phase = "serving"
    /\ resizes[i].pc = "idle"
    /\ \E id \in VolumeIdArgs, size \in 1..MaxSize, raises \in BOOLEAN, e \in Exceptions :
          LET params == [volume_id |-> id, size |-> size]
              c1 == GetById("volumes.get_by_id", VolumeExists(Provider, id), id, raises)
              volume == VolumeObject(Provider, id)
              returns(body) ==
                  [pc |-> "returning", params |-> params, volume |-> NoneList,
                   result |-> TryExcept(body, "Failed to resize volume: {}").value]
          IN  resizes' = [resizes EXCEPT ![i] =
                  IF c1.out = "raise" THEN returns(Raise(e, <<c1>>, Provider))
                  ELSE IF c1.out = "none"
                  THEN returns(Return(NotFound("Volume with ID {} not found", id), <<c1>>, Provider))
                  ELSE IF NotGrowing(size, volume)
                  THEN returns(Return(
                           [error |-> Msg("New size ({} GB) must be greater than current size ({} GB)",
                                          <<size, volume.size>>, <<>>)], <<c1>>, Provider))
                  ELSE [pc |-> "fetched", params |-> params, volume |-> Some(volume),
                        result |-> EmptyDict]]
    /\ UNCHANGED <<servers, ssh_keys, volumes, firewalls, action_status, process, last>>

\* action = client.volumes.resize(volume, params.size), and the dictionary
\* built from the Action or from the exception
ResizeCall(i) ==
    /\ resizes[i].pc = "fetched"
    /\ \E raises \in BOOLEAN, e \in Exceptions :
          LET params == resizes[i].params
              c2 == Mutation("volumes.resize", params.volume_id, raises)
              body == IF c2.out = "raise" THEN Raise(e, <<c2>>, Provider)
                      ELSE Return([success |-> TRUE, action |-> ActionDict("resize_volume")],
                                  <<c2>>, VolumesResize(Provider, params.volume_id, params.size))
              r == TryExcept(body, "Failed to resize volume: {}")
          IN  /\ resizes' = [resizes EXCEPT ![i] = [@ EXCEPT !.pc = "returning",
                                                             !.result = r.value]]
              /\ volumes' = r.prov.volumes
    /\ UNCHANGED <<servers, ssh_keys, firewalls, action_status, process, last>>

\* the handler returns its dictionary to the dispatcher
ResizeReturn(i) ==
    /\ resizes[i].pc = "returning"
    /\ resizes' = [resizes EXCEPT ![i] = NotRunning]
    /\ UNCHANGED <<servers, ssh_keys, volumes, firewalls, action_status, process, last>>

\* two invocations of resize_volume side by side, on the volumes that
\* create_volume has made
NextResizes ==
    \/ Reply
    \/ CreateVolume
    \/ \E i \in Invocations : ResizeFetch(i)
    \/ \E i \in Invocations : ResizeCall(i)
    \/ \E i \in Invocations : ResizeReturn(i)

SpecResizes == Init /\ [][NextResizes]_vars

\* the start of the process from any configuration file, and the first
\* requests it serves
NextStartup ==
    \/ Authenticate
    \/ ConstructClient
    \/ RegisterTools
    \/ StartServer
    \/ Reply
    \/ ListLocations
    \/ CreateSSHKey
    \/ GetSSHKey

SpecStartup == InitStartup /\ [][NextStartup]_vars

(***************************************************************************)
(* The shape converters on their own: the objects of the client with any   *)
(* of their optional parts absent.                                         *)
(***************************************************************************)
Opt(S) == {NoneList} \cup {Some(x) : x \in S}

ServerInputs ==
    [id : ServerIds, status : {"running"}, created : Opt({Created}),
     server_type : Opt({[name |-> ServerTypeNames[1]]}),
     image : Opt({[name |-> ImageNames[1]]}),
     datacenter : Opt([name : {"nbg1-dc3"}, location : Opt({[name |-> "nbg1"]})]),
     public_net : Opt([ipv4 : Opt({[ip |-> "192.0.2.1"]}),
                       ipv6 : Opt({[ip |-> "2001:db8::/64"]})]),
     protection : Opt({[delete |-> TRUE, rebuild |-> FALSE]}),
     volumes : {NoneList, Some({}), Some(VolumeIds)}]

VolumeInputs ==
    [id : VolumeIds, size : {1}, location : Opt({[name |-> "nbg1"]}),
     server : Opt({[id |-> 1]}), protection : Opt({[delete |-> TRUE]}),
     created : Opt({Created})]

\* resources as the client returns them: a server, a label selector with
\* the resources it matches (one of them without a server, one that has
\* resources of its own), a label selector that matches nothing, and a
\* resource with neither
SourceResources ==
    {FirewallResource("server", 1, NoneStr) @@ [applied_to_resources |-> <<>>],
     FirewallResource("label_selector", None, "env=prod")
     @@ [applied_to_resources |->
            <<FirewallResource("server", 1, NoneStr),
              FirewallResource("server", None, NoneStr),
              FirewallResource("server", 1, NoneStr)
              @@ [applied_to_resources |-> <<FirewallResource("server", 1, NoneStr)>>]>>],
     FirewallResource("label_selector", None, "env=dev") @@ [applied_to_resources |-> <<>>],
     FirewallResource("network", None, NoneStr) @@ [applied_to_resources |-> <<>>]}

FirewallInputs ==
    [id : FirewallIds,
     rules : Opt(SeqsUpTo(SourceRules, MaxRules)),
     applied_to : Opt(SeqsUpTo(SourceResources, MaxResources)),
     created : Opt({Created})]

SSHKeyInputs ==
    [id : SSHKeyIds, name : KeyNames, public_key : PublicKeys,
     created : Opt({Created})]

\* a conversion ends with the dictionary, or with the exception of an
\* attribute read from None
Converted(d, strings) ==
    [raised |-> AttributeError \in strings, value |-> d, calls |-> <<>>, prov |-> Provider]

ConvertServer ==
    /\ Accepting
    /\ \E server \in ServerInputs :
        LET d == server_to_dict(server)
        IN  Invoke("server_to_dict", [server |-> server],
                   Converted(d, {d.created, d.server_type, d.image, d.datacenter, d.location,
                                 d.public_net.ipv4, d.public_net.ipv6}))

ConvertVolume ==
    /\ Accepting
    /\ \E volume \in VolumeInputs :
        LET d == volume_to_dict(volume)
        IN  Invoke("volume_to_dict", [volume |-> volume],
                   Converted(d, {d.location, d.created}))

ConvertFirewall ==
    /\ Accepting
    /\ \E firewall \in FirewallInputs :
        LET d == firewall_to_dict(firewall)
        IN  Invoke("firewall_to_dict", [firewall |-> firewall], Converted(d, {d.created}))

ConvertSSHKey ==
    /\ Accepting
    /\ \E ssh_key \in SSHKeyInputs :
        LET d == ssh_key_to_dict(ssh_key)
        IN  Invoke("ssh_key_to_dict", [ssh_key |-> ssh_key], Converted(d, {d.created}))

NextConverters ==
    \/ Reply
    \/ ConvertServer
    \/ ConvertVolume
    \/ ConvertFirewall
    \/ ConvertSSHKey

SpecConverters == Init /\ [][NextConverters]_vars
(***************************************************************************)
(* Vocabulary of the properties.                                           *)
(***************************************************************************)
Returned == last # Idle

\* {"error": <message>} and nothing else
IsError(d) == DOMAIN d = {"error"}

\* a success dictionary: an entity, "success" or actions, and no "error"
IsSuccess(d) ==
    /\ "error" \notin DOMAIN d
    /\ "exception" \notin DOMAIN d
    /\ DOMAIN d # {}

LookupsById ==
    {"servers.get_by_id", "volumes.get_by_id", "firewalls.get_by_id", "ssh_keys.get_by_id"}
LookupsByName ==
    {"server_types.get_by_name", "images.get_by_name", "locations.get_by_name"}
MutatingCalls ==
    {"servers.create", "servers.delete", "servers.power_on", "servers.power_off",
     "servers.reboot", "firewalls.create", "firewalls.update", "firewalls.delete",
     "firewalls.set_rules", "firewalls.apply_to_resources",
     "firewalls.remove_from_resources", "volumes.create", "volumes.delete",
     "volumes.attach", "volumes.detach", "volumes.resize", "ssh_keys.create",
     "ssh_keys.update", "ssh_keys.delete"}

Calls(l) == {l.calls[j] : j \in 1..Len(l.calls)}
SomeCallRaised(l) == \E j \in 1..Len(l.calls) : l.calls[j].out = "raise"
Issued(l, ops) == \E j \in 1..Len(l.calls) : l.calls[j].op \in ops

NotFoundMessages ==
    {"Server with ID {} not found", "Volume with ID {} not found",
     "Firewall with ID {} not found", "SSH key with ID {} not found",
     "Server type '{}' not found. Available types: {}",
     "Image '{}' not found. Available images: {}",
     "Location '{}' not found. Available locations: {}",
     "Location '{}' not found"}
ValidationMessages ==
    {"Server ID is required when resource type is 'server'",
     "Label selector is required when resource type is 'label_selector'",
     "Invalid resource type: {}. Must be 'server' or 'label_selector'"}
IsNotFound(d) == IsError(d) /\ d.error.fmt \in NotFoundMessages
IsValidationError(d) == IsError(d) /\ d.error.fmt \in ValidationMessages

ProviderUnchanged == UNCHANGED <<servers, ssh_keys, volumes, firewalls>>

(***************************************************************************)
(* C1.  Every handler is a failure boundary: whatever each of its provider *)
(* calls does (returns a resource, returns no match, raises), the handler  *)
(* returns a dictionary that is a success envelope or {"error": message};  *)
(* no exception leaves it, and when a provider call raised, the error      *)
(* message carries the exception's message.                                *)
(***************************************************************************)
C1_HandlerIsFailureBoundary ==
    Returned =>
        /\ ~last.raised
        /\ IsError(last.result) \/ IsSuccess(last.result)
        /\ SomeCallRaised(last) =>
              /\ IsError(last.result)
              /\ \E e \in Exceptions : last.result.error.names = <<e>>

\* resize_volume has fetched the volume and the provider's resize has raised
C1_Witness ==
    /\ last.op = "resize_volume"
    /\ Len(last.calls) = 2
    /\ last.calls[1].out = "found"
    /\ last.calls[2].out = "raise"
    /\ IsError(last.result)

(***************************************************************************)
(* C2.  Whenever a lookup by ID made for a request returns no match (the   *)
(* server, volume, firewall or SSH key does not exist at the provider),    *)
(* the handler returns an error envelope whose message contains that ID,   *)
(* and never a success envelope.                                           *)
(***************************************************************************)
C2_MissingIdIsReported ==
    \A j \in 1..Len(last.calls) :
        (last.calls[j].op \in LookupsById /\ last.calls[j].out = "none") =>
            /\ IsError(last.result)
            /\ \E k \in 1..Len(last.result.error.ids) :
                  last.result.error.ids[k] = last.calls[j].id

(***************************************************************************)
(* C3.  An invocation that returns a not-found error envelope has issued   *)
(* no mutating provider call, and leaves the provider's state as it was.   *)
(***************************************************************************)
C3_NotFoundMutatesNothing ==
    [][(last' # Idle /\ IsNotFound(last'.result)) =>
          /\ ~Issued(last', MutatingCalls)
          /\ ProviderUnchanged]_vars

\* create_volume reports a missing server while a firewall exists
C3_Witness ==
    /\ last.op = "create_volume"
    /\ IsNotFound(last.result)
    /\ last.result.error.fmt = "Server with ID {} not found"
    /\ \E f \in FirewallIds : firewalls[f].exists

(***************************************************************************)
(* C4.  resize_volume on an existing volume with a size less than or equal *)
(* to the volume's current size returns an error envelope, does not call   *)
(* the provider's resize, and leaves the volume's size unchanged.          *)
(***************************************************************************)
C4_ResizeNeedsGrowth ==
    [][(/\ last'.op = "resize_volume"
        /\ VolumeExists(Provider, last'.params.volume_id)
        /\ last'.params.size <= volumes[last'.params.volume_id].size) =>
          /\ IsError(last'.result)
          /\ ~Issued(last', {"volumes.resize"})
          /\ volumes' = volumes]_vars

\* resize_volume has refused the size its fetch returned
C4_Witness ==
    /\ last.op = "resize_volume"
    /\ IsError(last.result)
    /\ last.result.error.fmt = "New size ({} GB) must be greater than current size ({} GB)"
    /\ last.result.error.ids[1] = last.result.error.ids[2]

(***************************************************************************)
(* C5.  detach_volume on an existing volume that has no attached server    *)
(* returns an error envelope whose message contains the volume id, and     *)
(* never calls the provider's detach.                                      *)
(***************************************************************************)
C5_DetachNeedsServer ==
    [][(/\ last'.op = "detach_volume"
        /\ VolumeExists(Provider, last'.params.volume_id)
        /\ volumes[last'.params.volume_id].server = None) =>
          /\ IsError(last'.result)
          /\ ~SomeCallRaised(last') =>
                last'.result.error.ids = <<last'.params.volume_id>>
          /\ ~Issued(last', {"volumes.detach"})
          /\ ProviderUnchanged]_vars

\* detach_volume has refused a volume that is attached to no server
C5_Witness ==
    /\ last.op = "detach_volume"
    /\ IsError(last.result)
    /\ last.result.error.fmt = "Volume with ID {} is not attached to any server"
    /\ volumes[last.params.volume_id].exists

(***************************************************************************)
(* C6.  As claimed: apply_firewall_to_resources on an existing firewall,   *)
(* given a resource list that contains a resource of type "server" with no *)
(* server_id, returns a validation error envelope and makes no provider    *)
(* call but the firewall lookup, wherever in the list that resource        *)
(* stands.  The code examines the resources in order, so it fails for a    *)
(* resource that stands behind a server resource.                          *)
(***************************************************************************)
NoServerId(resource_param) ==
    resource_param.type = "server" /\ resource_param.server_id = None

C6_OnlyFirewallLookup ==
    (/\ last.op = "apply_firewall_to_resources"
     /\ last.calls[1].out = "found"
     /\ \E j \in 1..Len(last.params.resources) : NoServerId(last.params.resources[j])) =>
        /\ IsValidationError(last.result)
        /\ Len(last.calls) = 1

(***************************************************************************)
(* C6, amended.  apply_firewall_to_resources on an existing firewall,      *)
(* given a resource list that contains a resource of type "server" with no *)
(* server_id, returns an error envelope and never calls                    *)
(* apply_to_resources; besides the firewall lookup it looks up only the    *)
(* servers of resources that stand before the first such resource, so the  *)
(* firewall lookup is its only provider call when that resource is first;  *)
(* the error is the validation error "Server ID is required" when every    *)
(* resource before it resolves.                                            *)
(***************************************************************************)
C6_LookupsOnlyBeforeOffender ==
    (/\ last.op = "apply_firewall_to_resources"
     /\ last.calls[1].out = "found"
     /\ \E j \in 1..Len(last.params.resources) : NoServerId(last.params.resources[j])) =>
        LET rs == last.params.resources
            k == Min({j \in 1..Len(rs) : NoServerId(rs[j])})
            serversBefore == {j \in 1..(k - 1) : rs[j].type = "server"}
            resolves(j) ==
                \/ rs[j].type = "server" /\ TruthyInt(rs[j].server_id)
                \/ rs[j].type = "label_selector" /\ TruthyStr(rs[j].label_selector)
            allResolve ==
                /\ \A j \in 1..(k - 1) : resolves(j)
                /\ \A c \in 1..Len(last.calls) : last.calls[c].out = "found"
        IN  /\ IsError(last.result)
            /\ ~Issued(last, {"firewalls.apply_to_resources"})
            /\ Len(last.calls) - 1 <= Cardinality(serversBefore)
            /\ \A c \in 2..Len(last.calls) :
                  /\ last.calls[c].op = "servers.get_by_id"
                  /\ \E j \in serversBefore : rs[j].server_id = last.calls[c].id
            /\ k = 1 => Len(last.calls) = 1
            /\ allResolve =>
                  /\ last.result.error.fmt = "Server ID is required when resource type is 'server'"
                  /\ Len(last.calls) = 1 + Cardinality(serversBefore)

\* the offending resource stands second, behind a server that was looked up
C6_Witness ==
    /\ last.op = "apply_firewall_to_resources"
    /\ Len(last.params.resources) = 2
    /\ NoServerId(last.params.resources[2])
    /\ last.params.resources[1].type = "server"
    /\ Len(last.calls) = 2
    /\ last.calls[2].out = "found"
    /\ last.result.error.fmt = "Server ID is required when resource type is 'server'"

(***************************************************************************)
(* C7.  In create_firewall, apply_firewall_to_resources and                *)
(* remove_firewall_from_resources, when an element of the resources list   *)
(* violates a cross-field dependency (type "server" without server_id,     *)
(* type "label_selector" without label_selector, or another type), the     *)
(* handler returns an error envelope (a validation error, unless an        *)
(* earlier lookup found nothing or raised) and does not issue the mutating *)
(* call: no resource of the list is applied or removed.                    *)
(***************************************************************************)
ViolatesDependency(resource_param) ==
    \/ resource_param.type = "server" /\ resource_param.server_id = None
    \/ resource_param.type = "label_selector" /\ resource_param.label_selector = NoneStr
    \/ resource_param.type \notin {"server", "label_selector"}

ResourcesOf(l) ==
    IF l.op = "create_firewall"
    THEN IF l.params.resources = NoneList THEN <<>> ELSE l.params.resources[1]
    ELSE l.params.resources

C7_NoPartialApplication ==
    [][(/\ last'.op \in {"create_firewall", "apply_firewall_to_resources",
                         "remove_firewall_from_resources"}
        /\ \E j \in 1..Len(ResourcesOf(last')) : ViolatesDependency(ResourcesOf(last')[j])) =>
          /\ IsError(last'.result)
          /\ IsValidationError(last'.result) \/ IsNotFound(last'.result) \/ SomeCallRaised(last')
          /\ ~Issued(last', {"firewalls.create", "firewalls.apply_to_resources",
                             "firewalls.remove_from_resources"})
          /\ ProviderUnchanged]_vars

\* remove_firewall_from_resources has resolved a server, then met a label
\* selector resource without selector; the firewall stays applied
C7_Witness ==
    /\ last.op = "remove_firewall_from_resources"
    /\ Len(last.calls) = 2
    /\ IsError(last.result)
    /\ last.result.error.fmt = "Label selector is required when resource type is 'label_selector'"
    /\ firewalls[last.params.firewall_id].applied_to # {}

(***************************************************************************)
(* C8.  set_firewall_rules on an existing firewall with an empty rules     *)
(* list (the provider answering its calls) returns a success envelope,     *)
(* passes an empty rule list to the provider's set_rules, and a following  *)
(* get_firewall of that firewall returns zero rules.                       *)
(***************************************************************************)
C8_EmptyRulesClearFirewall ==
    (/\ last.op = "set_firewall_rules"
     /\ last.params.rules = <<>>
     /\ last.calls[1].out = "found"
     /\ ~SomeCallRaised(last)) =>
        /\ IsSuccess(last.result)
        /\ last.result.success = TRUE
        /\ Len(last.calls) = 2
        /\ last.calls[2].op = "firewalls.set_rules"
        /\ last.calls[2].rules = <<>>
        /\ \A e \in Exceptions :
              LET got == get_firewall(Provider, last.params.firewall_id, 0, e).value
              IN  "firewall" \in DOMAIN got /\ got.firewall.rules = <<>>

\* set_firewall_rules has succeeded with an empty list
C8_Witness ==
    /\ last.op = "set_firewall_rules"
    /\ last.params.rules = <<>>
    /\ IsSuccess(last.result)

(***************************************************************************)
(* C9.  For every rule list L, a successful set_firewall_rules(L) followed *)
(* by get_firewall returns exactly the rules of L, in the same order and   *)
(* with the same field values: each rule's direction, protocol and         *)
(* source_ips, and each optional field that L gives a value.               *)
(***************************************************************************)
\* a rule of the request as a record of the fields it sets
RuleAsGiven(rule_param) ==
    [direction |-> rule_param.direction, protocol |-> rule_param.protocol,
     source_ips |-> rule_param.source_ips]
    @@ (IF rule_param.port # NoneStr THEN [port |-> rule_param.port] ELSE EmptyDict)
    @@ (IF rule_param.destination_ips # NoneList
        THEN [destination_ips |-> rule_param.destination_ips[1]] ELSE EmptyDict)
    @@ (IF rule_param.description # NoneStr
        THEN [description |-> rule_param.description] ELSE EmptyDict)

C9_SetThenGetRoundTrip ==
    (last.op = "set_firewall_rules" /\ IsSuccess(last.result)) =>
        \A e \in Exceptions :
            LET got == get_firewall(Provider, last.params.firewall_id, 0, e).value
            IN  /\ "firewall" \in DOMAIN got
                /\ got.firewall.rules =
                      [j \in 1..Len(last.params.rules) |-> RuleAsGiven(last.params.rules[j])]

(***************************************************************************)
(* C10.  create_server and create_volume, given a server_type, image or    *)
(* location name that does not resolve at the provider (the provider       *)
(* answering the lookups), return the not-found error envelope of the      *)
(* first such name, which names that name, and any other name in it is one *)
(* the provider has; they do not go on to the provider's create call.      *)
(***************************************************************************)
NotFoundMessagesOf(op) ==
    IF op = "server_types.get_by_name"
    THEN {"Server type '{}' not found. Available types: {}"}
    ELSE IF op = "images.get_by_name"
    THEN {"Image '{}' not found. Available images: {}"}
    ELSE {"Location '{}' not found. Available locations: {}", "Location '{}' not found"}

Unresolved(l) ==
    {j \in 1..Len(l.calls) : l.calls[j].op \in LookupsByName /\ l.calls[j].out = "none"}

C10_UnresolvedNameIsNamed ==
    (/\ last.op \in {"create_server", "create_volume"}
     /\ ~SomeCallRaised(last)
     /\ Unresolved(last) # {}) =>
        LET first == last.calls[Min(Unresolved(last))]
            known == Range(ServerTypeNames) \cup Range(ImageNames) \cup Range(LocationNames)
        IN  /\ IsError(last.result)
            /\ last.result.error.fmt \in NotFoundMessagesOf(first.op)
            /\ Len(last.result.error.names) >= 1
            /\ last.result.error.names[1] = first.name
            /\ \A k \in 2..Len(last.result.error.names) : last.result.error.names[k] \in known
            /\ ~Issued(last, {"servers.create", "volumes.create"})

\* create_server reports the image although the location does not resolve either
C10_Witness ==
    /\ last.op = "create_server"
    /\ Cardinality(Unresolved(last)) = 2
    /\ IsError(last.result)
    /\ last.result.error.fmt = "Image '{}' not found. Available images: {}"
    /\ last.result.error.names[1] = last.params.image

(***************************************************************************)
(* C11.  create_server, given a server_type, image and location that exist *)
(* at the provider (the provider answering its calls), returns a success   *)
(* envelope whose server record has server_type, image and location equal  *)
(* to the resolved names, and whose action is present and carries an id.   *)
(***************************************************************************)
C11_CreateServerReturnsResolvedNames ==
    (/\ last.op = "create_server"
     /\ last.params.server_type \in Range(ServerTypeNames)
     /\ last.params.image \in Range(ImageNames)
     /\ last.params.location \in Range(LocationNames)
     /\ ~SomeCallRaised(last)) =>
        /\ IsSuccess(last.result)
        /\ {"server", "action"} \subseteq DOMAIN last.result
        /\ last.result.server.server_type = last.params.server_type
        /\ last.result.server.image = last.params.image
        /\ last.result.server.location = last.params.location
        /\ "id" \in DOMAIN last.result.action
        /\ last.result.action.id \in Nat
        /\ Issued(last, {"servers.create"})
        /\ last.result.server.id \in servers

\* a server has been created in a location that is not the default
C11_Witness ==
    /\ last.op = "create_server"
    /\ IsSuccess(last.result)
    /\ last.params.location = "fsn1"
    /\ last.result.server.location = "fsn1"
    /\ last.result.action.id \in Nat

(***************************************************************************)
(* C12.  No handler waits for a provider Action: the provider call that    *)
(* returns the Action is the last provider call of the invocation, and     *)
(* every Action in the returned dictionary has the status the provider     *)
(* gave it, also when that status is "running" (then finished is null).    *)
(***************************************************************************)
ActionCalls ==
    {"servers.create", "servers.delete", "servers.power_on", "servers.power_off",
     "servers.reboot", "firewalls.create", "firewalls.set_rules",
     "firewalls.apply_to_resources", "firewalls.remove_from_resources",
     "volumes.create", "volumes.attach", "volumes.detach", "volumes.resize"}

\* the Action dictionaries of a returned dictionary
ActionsOf(d) ==
    (IF "action" \in DOMAIN d THEN {d.action} ELSE {})
    \cup (IF "actions" \in DOMAIN d /\ d.actions # NoneList THEN Range(d.actions[1]) ELSE {})
    \cup (IF "next_actions" \in DOMAIN d /\ d.next_actions # NoneList
          THEN Range(d.next_actions[1]) ELSE {})

C12_ActionReturnedMidFlight ==
    \A j \in 1..Len(last.calls) :
        (last.calls[j].op \in ActionCalls /\ last.calls[j].out = "ok") =>
            /\ j = Len(last.calls)
            /\ IsSuccess(last.result)
            /\ \A a \in ActionsOf(last.result) :
                  /\ a.status = action_status
                  /\ action_status = "running" => a.finished = NoneStr /\ a.progress < 100

\* attach_volume has returned an Action that is still running
C12_Witness ==
    /\ last.op = "attach_volume"
    /\ IsSuccess(last.result)
    /\ last.result.action.status = "running"
    /\ last.result.action.finished = NoneStr
    /\ last.calls[Len(last.calls)].op = "volumes.attach"

(***************************************************************************)
(* C13.  Within one handler invocation the mutating provider operation is  *)
(* issued at most once; when that call fails it is the last provider call  *)
(* of the invocation (no retry, no compensating call), the handler returns *)
(* an error envelope, and the provider's resources are as they were.       *)
(***************************************************************************)
MutatingCallsOf(l) == {j \in 1..Len(l.calls) : l.calls[j].op \in MutatingCalls}

C13_NoRetryNoCompensation ==
    [][last' # Idle =>
          /\ Cardinality(MutatingCallsOf(last')) <= 1
          /\ \A j \in MutatingCallsOf(last') :
                last'.calls[j].out = "raise" =>
                    /\ j = Len(last'.calls)
                    /\ IsError(last'.result)
                    /\ ProviderUnchanged]_vars

\* apply_firewall_to_resources has resolved a server and then failed at the
\* mutation step
C13_Witness ==
    /\ last.op = "apply_firewall_to_resources"
    /\ Len(last.calls) = 3
    /\ last.calls[2].out = "found"
    /\ last.calls[3].op = "firewalls.apply_to_resources"
    /\ last.calls[3].out = "raise"
    /\ IsError(last.result)

(***************************************************************************)
(* C14.  As claimed: authenticate returns a token exactly when the         *)
(* configuration file exists, parses, has a non-empty active_context, and  *)
(* its contexts list holds a record whose name equals active_context and   *)
(* whose token is non-empty; the value returned is the token of such a     *)
(* record.  The code stops at the first record of that name, so it fails   *)
(* when an earlier record of the same name has no token.                   *)
(***************************************************************************)
Authenticated == process.phase \notin {"importing", "aborted"}

\* the positions of the records named like the active context
ActiveRecords(config) ==
    {i \in 1..Len(config.contexts) : config.contexts[i].name = config.active_context}

C14_TokenOfSomeActiveRecord ==
    process.phase # "importing" =>
        LET config == process.config
            usable == {i \in ActiveRecords(config) : TruthyStr(config.contexts[i].token)}
        IN  /\ Authenticated <=>
                  (config.file = "toml" /\ TruthyStr(config.active_context) /\ usable # {})
            /\ Authenticated => \E i \in usable : process.token = config.contexts[i].token

(***************************************************************************)
(* C14, amended.  authenticate returns a token exactly when the            *)
(* configuration file exists, parses, has a non-empty active_context, and  *)
(* the first record of its contexts list whose name equals active_context  *)
(* has a non-empty token; the value returned is the token of that record   *)
(* and never the token of a context with a different name.                 *)
(***************************************************************************)
C14_TokenOfFirstActiveRecord ==
    process.phase # "importing" =>
        LET config == process.config
            first == Min(ActiveRecords(config))
            usable == /\ config.file = "toml"
                      /\ TruthyStr(config.active_context)
                      /\ ActiveRecords(config) # {}
                      /\ TruthyStr(config.contexts[first].token)
        IN  /\ Authenticated <=> usable
            /\ Authenticated =>
                  /\ process.token = config.contexts[first].token
                  /\ process.error = NoError

\* the active context stands second, behind a context with another token
C14_Witness ==
    /\ Authenticated
    /\ process.config.active_context = "prod"
    /\ process.config.contexts =
          <<[name |-> "dev", token |-> "tok-b"], [name |-> "prod", token |-> "tok-a"]>>
    /\ process.token = "tok-a"

(***************************************************************************)
(* C15.  Each credential failure mode (file absent; malformed syntax;      *)
(* active context name missing; its record absent from the contexts list;  *)
(* token empty) makes authenticate raise an error whose message identifies *)
(* that mode; the process then ends with no provider client constructed    *)
(* and no tool registered, so no handler is invoked after a configuration  *)
(* failure, and every invocation that returns an envelope runs under a     *)
(* configuration that authenticated.                                       *)
(***************************************************************************)
FailureMode(config) ==
    IF config.file = "absent" THEN "file absent"
    ELSE IF config.file = "malformed" THEN "malformed syntax"
    ELSE IF ~TruthyStr(config.active_context) THEN "no active context"
    ELSE IF ActiveRecords(config) = {} THEN "context absent"
    ELSE IF ~TruthyStr(config.contexts[Min(ActiveRecords(config))].token) THEN "token empty"
    ELSE "none"

\* the text by which an error names its failure mode
IdentifiedBy(mode) ==
    IF mode = "file absent"
    THEN "hcloud CLI configuration not found. Please run login to hcloud to setup the hcloud CLI first."
    ELSE IF mode = "malformed syntax" THEN "Invalid TOML format in hcloud configuration: {}"
    ELSE IF mode = "no active context" THEN "No active context found in hcloud configuration"
    ELSE IF mode = "context absent" THEN "Active context '{}' not found in contexts"
    ELSE "No token found for context '{}'"

C15_ConfigurationFailureIsFatal ==
    /\ [](process.phase # "importing" =>
            /\ FailureMode(process.config) # "none" =>
                  /\ process.phase = "aborted"
                  /\ IdentifiedBy(FailureMode(process.config))
                        \in {process.error.fmt, process.error.cause}
                  /\ ~process.client
                  /\ ~process.tools
                  /\ last = Idle
            /\ process.phase = "aborted" => FailureMode(process.config) # "none")
    /\ [](last # Idle => FailureMode(process.config) = "none" /\ process.client /\ process.tools)
    /\ [][process.phase = "aborted" => FALSE]_vars

\* the process has ended on a context without token
C15_Witness ==
    /\ process.phase = "aborted"
    /\ process.error.type = "RuntimeError"
    /\ process.error.cause = "No token found for context '{}'"
    /\ process.error.names = <<"prod">>
    /\ ~process.client

(***************************************************************************)
(* C16.  Every shape converter returns a record without raising for every  *)
(* input in which any combination of optional sub-objects is absent, and   *)
(* emits null (or the empty default: false for a protection flag, no       *)
(* volumes, no rules, no applied_to) for each absent part; in particular a *)
(* server with no datacenter converts with location null.                  *)
(***************************************************************************)
C16_ConvertersAreTotal ==
    /\ last.op \in {"server_to_dict", "volume_to_dict", "firewall_to_dict", "ssh_key_to_dict"} =>
          ~last.raised
    /\ last.op = "server_to_dict" =>
          LET server == last.params.server
              d == last.result
          IN  /\ DOMAIN d = {"id", "status", "created", "server_type", "image", "datacenter",
                             "location", "public_net", "protection", "volumes"}
              /\ server.created = NoneList => d.created = NoneStr
              /\ server.server_type = NoneList => d.server_type = NoneStr
              /\ server.image = NoneList => d.image = NoneStr
              /\ server.datacenter = NoneList => d.datacenter = NoneStr /\ d.location = NoneStr
              /\ (server.datacenter # NoneList /\ server.datacenter[1].location = NoneList) =>
                    d.location = NoneStr
              /\ server.public_net = NoneList =>
                    d.public_net = [ipv4 |-> NoneStr, ipv6 |-> NoneStr]
              /\ (server.public_net # NoneList /\ server.public_net[1].ipv4 = NoneList) =>
                    d.public_net.ipv4 = NoneStr
              /\ (server.public_net # NoneList /\ server.public_net[1].ipv6 = NoneList) =>
                    d.public_net.ipv6 = NoneStr
              /\ server.protection = NoneList =>
                    d.protection = [delete |-> FALSE, rebuild |-> FALSE]
              /\ server.volumes = NoneList => d.volumes = {}
    /\ last.op = "volume_to_dict" =>
          LET volume == last.params.volume
              d == last.result
          IN  /\ DOMAIN d = {"id", "size", "location", "server", "protection", "created"}
              /\ volume.location = NoneList => d.location = NoneStr
              /\ volume.server = NoneList => d.server = None
              /\ volume.protection = NoneList => d.protection = [delete |-> FALSE]
              /\ volume.created = NoneList => d.created = NoneStr
    /\ last.op = "firewall_to_dict" =>
          LET firewall == last.params.firewall
              d == last.result
          IN  /\ DOMAIN d = {"id", "rules", "applied_to", "created"}
              /\ firewall.rules = NoneList => d.rules = <<>>
              /\ firewall.applied_to = NoneList => d.applied_to = <<>>
              /\ firewall.created = NoneList => d.created = NoneStr
    /\ last.op = "ssh_key_to_dict" =>
          (last.params.ssh_key.created = NoneList => last.result.created = NoneStr)

\* a server without datacenter, public_net and protection has been converted
C16_Witness ==
    /\ last.op = "server_to_dict"
    /\ last.params.server.datacenter = NoneList
    /\ last.params.server.public_net = NoneList
    /\ last.params.server.protection = NoneList
    /\ ~last.raised
    /\ last.result.location = NoneStr

(***************************************************************************)
(* C17.  As claimed: firewall_to_dict emits one rule record per source     *)
(* rule, in order, that always has direction, protocol and source_ips, and *)
(* that has the key port, destination_ips or description exactly when that *)
(* field was set (is not None) on the source rule.  The code tests the     *)
(* fields by truth value, so it fails for a field set to an empty value.   *)
(***************************************************************************)
SourceRulesOf(firewall) == IF TruthyList(firewall.rules) THEN firewall.rules[1] ELSE <<>>

\* the rule records are the source rules in order, with their three
\* mandatory fields
RulesInOrder(src, out) ==
    /\ Len(out) = Len(src)
    /\ \A j \in 1..Len(src) :
          /\ {"direction", "protocol", "source_ips"} \subseteq DOMAIN out[j]
          /\ DOMAIN out[j] \subseteq {"direction", "protocol", "source_ips", "port",
                                      "destination_ips", "description"}
          /\ out[j].direction = src[j].direction
          /\ out[j].protocol = src[j].protocol
          /\ out[j].source_ips = src[j].source_ips

ResizeCallsOf(l) == {j \in 1..Len(l.calls) : l.calls[j].op = "volumes.resize"}

C18_VolumeSizeNeverDecreases ==
    [][/\ \A v \in VolumeIds :
             (volumes[v].exists /\ volumes'[v].exists) =>
                 /\ volumes'[v].size >= volumes[v].size
                 /\ volumes'[v].size # volumes[v].size => last'.op = "resize_volume"
       /\ \A j \in ResizeCallsOf(last') :
             /\ last'.op = "resize_volume"
             /\ VolumeExists(Provider, last'.calls[j].id)
             /\ last'.calls[j].size > volumes[last'.calls[j].id].size]_vars

\* resize_volume has grown a volume to the largest size
C18_Witness ==
    /\ last.op = "resize_volume"
    /\ ~IsError(last.result)
    /\ ResizeCallsOf(last) # {}
    /\ volumes[last.params.volume_id].size = MaxSize

(***************************************************************************)
(* C19.  Over any sequence of invocations the public_key of an existing    *)
(* SSH key never changes: in every step a key that exists before and after *)
(* has the public key it had, the only provider call that carries a        *)
(* public_key is the ssh_keys.create of create_ssh_key, and the            *)
(* ssh_keys.update of update_ssh_key carries the name and the labels of    *)
(* the request and nothing else.                                           *)
(***************************************************************************)
C19_PublicKeyIsImmutable ==
    [][/\ \A k \in SSHKeyIds :
             (ssh_keys[k].exists /\ ssh_keys'[k].exists) =>
                 ssh_keys'[k].public_key = ssh_keys[k].public_key
       /\ \A j \in 1..Len(last'.calls) :
             /\ "public_key" \in DOMAIN last'.calls[j] =>
                   /\ last'.op = "create_ssh_key"
                   /\ last'.calls[j].op = "ssh_keys.create"
                   /\ last'.calls[j].public_key = last'.params.public_key
             /\ last'.calls[j].op = "ssh_keys.update" =>
                   /\ last'.op = "update_ssh_key"
                   /\ DOMAIN last'.calls[j] = {"op", "id", "name", "out", "labels"}
                   /\ last'.calls[j].id = last'.params.ssh_key_id
                   /\ last'.calls[j].name = last'.params.name
                   /\ last'.calls[j].labels = last'.params.labels]_vars

\* update_ssh_key has renamed a key, which still has the public key it was
\* created with
C19_Witness ==
    /\ last.op = "update_ssh_key"
    /\ ~IsError(last.result)
    /\ last.result.ssh_key.name = "renamed"
    /\ ssh_keys[last.params.ssh_key_id].name = "renamed"
    /\ ssh_keys[last.params.ssh_key_id].public_key = "ssh-rsa BBBB"

(***************************************************************************)
(* C20.  Every read re-fetches from the provider: an invocation of a       *)
(* list_* or get_* tool issues exactly one provider fetch of its own, for  *)
(* the collection or the identifier of the request, changes nothing, and   *)
(* returns what the provider holds in the state in which it is invoked,    *)
(* whoever has brought that state about: the handlers or somebody else.    *)
(***************************************************************************)
ListTools ==
    {"list_servers", "list_images", "list_server_types", "list_locations",
     "list_firewalls", "list_volumes", "list_ssh_keys"}
GetTools == {"get_server", "get_firewall", "get_volume", "get_ssh_key"}

\* the provider fetch of a reading tool
FetchOf(op) ==
    IF op = "list_servers" THEN "servers.get_all"
    ELSE IF op = "list_images" THEN "images.get_all"
    ELSE IF op = "list_server_types" THEN "server_types.get_all"
    ELSE IF op = "list_locations" THEN "locations.get_all"
    ELSE IF op = "list_firewalls" THEN "firewalls.get_all"
    ELSE IF op = "list_volumes" THEN "volumes.get_all"
    ELSE IF op = "list_ssh_keys" THEN "ssh_keys.get_all"
    ELSE IF op = "get_server" THEN "servers.get_by_id"
    ELSE IF op = "get_firewall" THEN "firewalls.get_by_id"
    ELSE IF op = "get_volume" THEN "volumes.get_by_id"
    ELSE "ssh_keys.get_by_id"

\* the dictionaries that show the provider's state as it is
ShowsServer(d) ==
    /\ d.id \in servers
    /\ d.volumes = {v \in VolumeIds : volumes[v].exists /\ volumes[v].server = d.id}
ShowsVolume(d) ==
    /\ VolumeExists(Provider, d.id)
    /\ d.size = volumes[d.id].size
    /\ d.server = volumes[d.id].server
ShowsSSHKey(d) ==
    /\ SSHKeyExists(Provider, d.id)
    /\ d.name = ssh_keys[d.id].name
    /\ d.public_key = ssh_keys[d.id].public_key
ShowsFirewall(d) ==
    /\ FirewallExists(Provider, d.id)
    /\ d.rules = [j \in 1..Len(firewalls[d.id].rules) |-> rule_dict(firewalls[d.id].rules[j])]
    /\ Len(d.applied_to) = Cardinality({r.type : r \in firewalls[d.id].applied_to})

\* the identifier a get_* request names
RequestedId(l) ==
    IF l.op = "get_server" THEN l.params.server_id
    ELSE IF l.op = "get_firewall" THEN l.params.firewall_id
    ELSE IF l.op = "get_volume" THEN l.params.volume_id
    ELSE l.params.ssh_key_id

ExistsAtProvider(l) ==
    IF l.op = "get_server" THEN ServerExists(Provider, RequestedId(l))
    ELSE IF l.op = "get_firewall" THEN FirewallExists(Provider, RequestedId(l))
    ELSE IF l.op = "get_volume" THEN VolumeExists(Provider, RequestedId(l))
    ELSE SSHKeyExists(Provider, RequestedId(l))

ShowsRequested(l) ==
    IF l.op = "get_server"
    THEN DOMAIN l.result = {"server"} /\ l.result.server.id = RequestedId(l)
         /\ ShowsServer(l.result.server)
    ELSE IF l.op = "get_firewall"
    THEN DOMAIN l.result = {"firewall"} /\ l.result.firewall.id = RequestedId(l)
         /\ ShowsFirewall(l.result.firewall)
    ELSE IF l.op = "get_volume"
    THEN DOMAIN l.result = {"volume"} /\ l.result.volume.id = RequestedId(l)
         /\ ShowsVolume(l.result.volume)
    ELSE DOMAIN l.result = {"ssh_key"} /\ l.result.ssh_key.id = RequestedId(l)
         /\ ShowsSSHKey(l.result.ssh_key)

ShowsAll(l) ==
    IF l.op = "list_servers"
    THEN {d.id : d \in l.result.servers} = servers
         /\ \A d \in l.result.servers : ShowsServer(d)
    ELSE IF l.op = "list_firewalls"
    THEN {d.id : d \in l.result.firewalls} = {f \in FirewallIds : firewalls[f].exists}
         /\ \A d \in l.result.firewalls : ShowsFirewall(d)
    ELSE IF l.op = "list_volumes"
    THEN {d.id : d \in l.result.volumes} = {v \in VolumeIds : volumes[v].exists}
         /\ \A d \in l.result.volumes : ShowsVolume(d)
    ELSE IF l.op = "list_ssh_keys"
    THEN {d.id : d \in l.result.ssh_keys} = {k \in SSHKeyIds : ssh_keys[k].exists}
         /\ \A d \in l.result.ssh_keys : ShowsSSHKey(d)
    ELSE IF l.op = "list_images" THEN l.result = [images |-> ImageNames]
    ELSE IF l.op = "list_server_types" THEN l.result = [server_types |-> ServerTypeNames]
    ELSE l.result = [locations |-> LocationNames]

C20_EveryReadRefetches ==
    [][last'.op \in ListTools \cup GetTools =>
          /\ ProviderUnchanged
          /\ Len(last'.calls) = 1
          /\ last'.calls[1].op = FetchOf(last'.op)
          /\ last'.calls[1].out = "raise" <=>
                (IsError(last'.result) /\ last'.result.error.names # <<>>)
          /\ last'.op \in GetTools =>
                /\ last'.calls[1].id = RequestedId(last')
                /\ last'.calls[1].out # "raise" =>
                      (last'.calls[1].out = "found" <=> ExistsAtProvider(last'))
                /\ last'.calls[1].out = "found" => ShowsRequested(last')
                /\ last'.calls[1].out = "none" => IsError(last'.result)
          /\ (last'.op \in ListTools /\ last'.calls[1].out = "ok") => ShowsAll(last')]_vars

\* get_volume shows a volume at its largest size and attached to a server,
\* which only somebody else can have created and attached
C20_Witness ==
    /\ last.op = "get_volume"
    /\ ~IsError(last.result)
    /\ last.result.volume.size = MaxSize
    /\ last.result.volume.server = 1
    /\ ShowsVolume(last.result.volume)

(***************************************************************************)
(* C21.  Handlers share no mutable state across invocations.  Take an      *)
(* invocation of a volume tool in some run, and any other run in which the *)
(* same request meets a provider that other invocations have brought into  *)
(* another state, but that answers the calls of this invocation as in the  *)
(* first run (the same objects, the same failure): the invocation issues   *)
(* the same provider calls and returns the same envelope.                  *)
(***************************************************************************)
VolumeTools ==
    {"list_volumes", "get_volume", "create_volume", "delete_volume", "attach_volume",
     "detach_volume", "resize_volume"}

\* the handler of a volume tool
VolumeTool(op, params, p, failAt, exc) ==
    IF op = "list_volumes" THEN list_volumes(p, failAt, exc)
    ELSE IF op = "get_volume" THEN get_volume(p, params.volume_id, failAt, exc)
    ELSE IF op = "create_volume" THEN create_volume(p, params, failAt, exc)
    ELSE IF op = "delete_volume" THEN delete_volume(p, params.volume_id, failAt, exc)
    ELSE IF op = "attach_volume" THEN attach_volume(p, params, failAt, exc)
    ELSE IF op = "detach_volume" THEN detach_volume(p, params.volume_id, failAt, exc)
    ELSE resize_volume(p, params, failAt, exc)

\* the states other invocations can have left the provider in
ProviderStates ==
    {p \in [servers : SUBSET ServerIds,
            ssh_keys : [SSHKeyIds -> {NoSSHKey} \cup
                           [exists : {TRUE}, name : {"key"}, public_key : PublicKeys]],
            volumes : [VolumeIds -> {NoVolume} \cup
                          [exists : {TRUE}, size : 1..MaxSize,
                           server : ServerIds \cup {None}]],
            firewalls : {[f \in FirewallIds |-> NoFirewall]}] :
        \A v \in VolumeIds :
            p.volumes[v].exists /\ p.volumes[v].server # None =>
                ServerExists(p, p.volumes[v].server)}

\* what the provider in state p answers to a call that does not raise
Answer(c, p) ==
    IF c.op = "volumes.get_by_id"
    THEN [object |-> IF VolumeExists(p, c.id) THEN <<p.volumes[c.id]>> ELSE <<>>]
    ELSE IF c.op = "volumes.get_all"
    THEN [object |-> <<p.volumes>>]
    ELSE IF c.op = "servers.get_by_id"
    THEN [object |-> IF ServerExists(p, c.id) THEN <<c.id>> ELSE <<>>]
    ELSE IF c.op = "volumes.create"
    THEN [object |-> <<{v \in VolumeIds : ~VolumeExists(p, v)}>>]
    ELSE [object |-> <<>>]

\* the call of an invocation that raised, 0 when none has
RaiseIndex(calls) ==
    IF \E j \in 1..Len(calls) : calls[j].out = "raise"
    THEN CHOOSE j \in 1..Len(calls) : calls[j].out = "raise"
    ELSE 0

\* the provider in state q answers the calls of invocation l as the provider
\* in state p has
AnswersAlike(l, p, q) ==
    \A j \in 1..Len(l.calls) :
        l.calls[j].out # "raise" => Answer(l.calls[j], q) = Answer(l.calls[j], p)

NoModel == "<no parameter>"

\* the models that are the fields of other models
NestedModels == {"FirewallRuleParam", "FirewallResourceParam"}

ParameterModels ==
    {"CreateServerParams", "ServerIdParam", "FirewallIdParam", "CreateFirewallParams",
     "UpdateFirewallParams", "SetFirewallRulesParams", "FirewallResourcesParams",
     "VolumeIdParam", "CreateVolumeParams", "AttachVolumeParams", "ResizeVolumeParams",
     "SSHKeyIdParam", "CreateSSHKeyParams", "UpdateSSHKeyParams"} \cup NestedModels

FieldsOf(m) ==
    IF m = "CreateServerParams" THEN {"name", "server_type", "image", "location", "ssh_keys"}
    ELSE IF m = "ServerIdParam" THEN {"server_id"}
    ELSE IF m = "FirewallIdParam" THEN {"firewall_id"}
    ELSE IF m = "FirewallRuleParam"
    THEN {"direction", "protocol", "source_ips", "port", "destination_ips", "description"}
    ELSE IF m = "FirewallResourceParam" THEN {"type", "server_id", "label_selector"}
    ELSE IF m = "CreateFirewallParams" THEN {"name", "rules", "resources", "labels"}
    ELSE IF m = "UpdateFirewallParams" THEN {"firewall_id", "name", "labels"}
    ELSE IF m = "SetFirewallRulesParams" THEN {"firewall_id", "rules"}
    ELSE IF m = "FirewallResourcesParams" THEN {"firewall_id", "resources"}
    ELSE IF m = "VolumeIdParam" THEN {"volume_id"}
    ELSE IF m = "CreateVolumeParams"
    THEN {"name", "size", "location", "server", "automount", "format", "labels"}
    ELSE IF m = "AttachVolumeParams" THEN {"volume_id", "server_id", "automount"}
    ELSE IF m = "ResizeVolumeParams" THEN {"volume_id", "size"}
    ELSE IF m = "SSHKeyIdParam" THEN {"ssh_key_id"}
    ELSE IF m = "CreateSSHKeyParams" THEN {"name", "public_key", "labels"}
    ELSE IF m = "UpdateSSHKeyParams" THEN {"ssh_key_id", "name", "labels"}
    ELSE {}

Tools ==
    {"list_servers", "get_server", "create_server", "delete_server", "list_images",
     "list_server_types", "list_locations", "power_on", "power_off", "reboot",
     "list_firewalls", "get_firewall", "create_firewall", "update_firewall",
     "delete_firewall", "set_firewall_rules", "apply_firewall_to_resources",
     "remove_firewall_from_resources", "list_volumes", "get_volume", "create_volume",
     "delete_volume", "attach_volume", "detach_volume", "resize_volume",
     "list_ssh_keys", "get_ssh_key", "create_ssh_key", "update_ssh_key",
     "delete_ssh_key"}

\* the mutant in which the tools that take an identifier have each a model
\* of their own
ParameterModelOfOwn(tool) ==
    IF tool \in {"list_servers", "list_images", "list_server_types", "list_locations",
                 "list_firewalls", "list_volumes", "list_ssh_keys"} THEN NoModel
    ELSE IF tool = "create_server" THEN "CreateServerParams"
    ELSE IF tool = "create_firewall" THEN "CreateFirewallParams"
    ELSE IF tool = "update_firewall" THEN "UpdateFirewallParams"
    ELSE IF tool = "set_firewall_rules" THEN "SetFirewallRulesParams"
    ELSE IF tool = "create_volume" THEN "CreateVolumeParams"
    ELSE IF tool = "attach_volume" THEN "AttachVolumeParams"
    ELSE IF tool = "resize_volume" THEN "ResizeVolumeParams"
    ELSE IF tool = "create_ssh_key" THEN "CreateSSHKeyParams"
    ELSE IF tool = "update_ssh_key" THEN "UpdateSSHKeyParams"
    ELSE tool \o "Params"

\* the annotation of the handler's parameter: def <tool>(params: <model>)
ParameterModelOf(tool) ==
    IF tool \in {"list_servers", "list_images", "list_server_types", "list_locations",
                 "list_firewalls", "list_volumes", "list_ssh_keys"} THEN NoModel
    ELSE IF tool \in {"get_server", "delete_server", "power_on", "power_off", "reboot"}
    THEN "ServerIdParam"
    ELSE IF tool = "create_server" THEN "CreateServerParams"
    ELSE IF tool \in {"get_firewall", "delete_firewall"} THEN "FirewallIdParam"
    ELSE IF tool = "create_firewall" THEN "CreateFirewallParams"
    ELSE IF tool = "update_firewall" THEN "UpdateFirewallParams"
    ELSE IF tool = "set_firewall_rules" THEN "SetFirewallRulesParams"
    ELSE IF tool \in {"apply_firewall_to_resources", "remove_firewall_from_resources"}
    THEN "FirewallResourcesParams"
    ELSE IF tool \in {"get_volume", "delete_volume", "detach_volume"} THEN "VolumeIdParam"
    ELSE IF tool = "create_volume" THEN "CreateVolumeParams"
    ELSE IF tool = "attach_volume" THEN "AttachVolumeParams"
    ELSE IF tool = "resize_volume" THEN "ResizeVolumeParams"
    ELSE IF tool \in {"get_ssh_key", "delete_ssh_key"} THEN "SSHKeyIdParam"
    ELSE IF tool = "create_ssh_key" THEN "CreateSSHKeyParams"
    ELSE "UpdateSSHKeyParams"

ToolsTaking(m) == {t \in Tools : ParameterModelOf(t) = m}

\* the request of the invocation that has returned is an instance of the
\* model of its tool
RequestFitsModel ==
    last.op \in Tools => DOMAIN last.params \subseteq FieldsOf(ParameterModelOf(last.op))

\* each model is taken by one tool
ModelsAreOneToOne == \A m \in ParameterModels : Cardinality(ToolsTaking(m)) = 1

\* the models are taken by the tools of the module, some by several
ModelsAreSharedByTools ==
    /\ \A t \in Tools : ParameterModelOf(t) \in (ParameterModels \ NestedModels) \cup {NoModel}
    /\ \A m \in ParameterModels \ NestedModels : ToolsTaking(m) # {}
    /\ \A m \in NestedModels : ToolsTaking(m) = {}
    /\ Cardinality(ToolsTaking("ServerIdParam")) = 5
    /\ Cardinality(ToolsTaking("VolumeIdParam")) = 3
    /\ Cardinality(ToolsTaking("FirewallIdParam")) = 2
    /\ Cardinality(ToolsTaking("FirewallResourcesParams")) = 2
    /\ Cardinality(ToolsTaking("SSHKeyIdParam")) = 2
    /\ \A m \in ParameterModels \ NestedModels :
          m \notin {"ServerIdParam", "VolumeIdParam", "FirewallIdParam",
                    "FirewallResourcesParams", "SSHKeyIdParam"} =>
              Cardinality(ToolsTaking(m)) = 1

(***************************************************************************)
(* C22.  As claimed: every request model defined in the module is the      *)
(* parameter type of exactly one registered tool, and no two tools take    *)
(* the same model.  The module has tools that share a model.               *)
(***************************************************************************)
C22_ModelsAreOneToOne == RequestFitsModel /\ ModelsAreOneToOne

(***************************************************************************)
(* C22, amended.  Every registered tool takes no parameter or one request  *)
(* model of the module, of which each request is an instance, and every    *)
(* request model except the two nested ones (FirewallRuleParam,            *)
(* FirewallResourceParam, which no tool takes) is the parameter type of at *)
(* least one tool; the models that carry only an identifier, and           *)
(* FirewallResourcesParams, are taken by several tools: ServerIdParam by   *)
(* five, VolumeIdParam by three, FirewallIdParam, FirewallResourcesParams  *)
(* and SSHKeyIdParam by two each.                                          *)
(***************************************************************************)
C22_ModelsAreSharedByTools == RequestFitsModel /\ ModelsAreSharedByTools

\* power_on has served a request of the model that get_server takes as well
C22_Witness ==
    /\ last.op = "power_on"
    /\ DOMAIN last.params = FieldsOf("ServerIdParam")
    /\ ParameterModelOf("power_on") = ParameterModelOf("get_server")
    /\ ~IsError(last.result)

(***************************************************************************)
(* C23.  firewall_to_dict expands the applied-to resources exactly one     *)
(* level deep: there is one applied_to record per source resource, in      *)
(* order, with its type, its server (id, name) when the resource has one,  *)
(* its label_selector when it has one, and applied_to_resources when the   *)
(* source's list is non-empty; a nested record has its type and, when it   *)
(* has one, its server (id, name), and no other key: the resources of a    *)
(* nested resource are not expanded.                                       *)
(***************************************************************************)
SourceResourcesOf(firewall) ==
    IF TruthyList(firewall.applied_to) THEN firewall.applied_to[1] ELSE <<>>

\* the record of a resource shows its server when it has one
ShowsServerOf(src, out) ==
    /\ out.type = src.type
    /\ "server" \in DOMAIN out <=> src.server # None
    /\ "server" \in DOMAIN out =>
          out.server = [id |-> src.server, name |-> ServerName(src.server)]

C23_AppliedToOneLevelDeep ==
    last.op = "firewall_to_dict" =>
        LET src == SourceResourcesOf(last.params.firewall)
            out == last.result.applied_to
        IN  /\ Len(out) = Len(src)
            /\ \A j \in 1..Len(src) :
                  /\ DOMAIN out[j] \subseteq
                        {"type", "server", "label_selector", "applied_to_resources"}
                  /\ ShowsServerOf(src[j], out[j])
                  /\ "label_selector" \in DOMAIN out[j] <=> src[j].label_selector # NoneStr
                  /\ "label_selector" \in DOMAIN out[j] =>
                        out[j].label_selector = [selector |-> src[j].label_selector]
                  /\ "applied_to_resources" \in DOMAIN out[j] <=>
                        src[j].applied_to_resources # <<>>
                  /\ "applied_to_resources" \in DOMAIN out[j] =>
                        /\ Len(out[j].applied_to_resources) = Len(src[j].applied_to_resources)
                        /\ \A k \in 1..Len(src[j].applied_to_resources) :
                              /\ DOMAIN out[j].applied_to_resources[k] \subseteq {"type", "server"}
                              /\ ShowsServerOf(src[j].applied_to_resources[k],
                                               out[j].applied_to_resources[k])

\* a label selector has been converted whose third matched resource has
\* resources of its own, which the record does not show
C23_Witness ==
    /\ last.op = "firewall_to_dict"
    /\ Len(SourceResourcesOf(last.params.firewall)) = 2
    /\ "applied_to_resources" \notin DOMAIN last.result.applied_to[1]
    /\ "applied_to_resources" \in DOMAIN last.result.applied_to[2]
    /\ Len(last.result.applied_to[2].applied_to_resources) = 3
    /\ "applied_to_resources" \in
          DOMAIN SourceResourcesOf(last.params.firewall)[2].applied_to_resources[3]
    /\ DOMAIN last.result.applied_to[2].applied_to_resources[3] = {"type", "server"}
    /\ DOMAIN last.result.applied_to[2].applied_to_resources[2] = {"type"}

(***************************************************************************)
(* C24.  create_server invoked without a location resolves the fixed       *)
(* default "nbg1" at the provider and passes it to the create call; when a *)
(* location is given, the handler resolves and passes that location, and   *)
(* the default is not used.                                                *)
(***************************************************************************)
\* the request model puts "nbg1" where the request has no location, and
\* leaves a given location as it is
LocationDefaultsToNbg1 ==
    \A keys \in {NoneList, Some(<<>>)} :
        /\ CreateServerParams("cx11", "ubuntu-22.04", Omitted, keys).location = "nbg1"
        /\ \A loc \in {"nbg1", "fsn1", "mars"} :
              CreateServerParams("cx11", "ubuntu-22.04", loc, keys).location = loc

CallsOf(l, op) == {j \in 1..Len(l.calls) : l.calls[j].op = op}

C24_LocationDefault ==
    /\ LocationDefaultsToNbg1
    /\ last.op = "create_server" =>
          /\ Cardinality(CallsOf(last, "locations.get_by_name")) <= 1
          /\ \A j \in CallsOf(last, "locations.get_by_name") :
                last.calls[j].name = last.params.location
          /\ \A j \in CallsOf(last, "servers.create") :
                /\ last.calls[j].location = last.params.location
                /\ last.params.location \in Range(LocationNames)
                /\ CallsOf(last, "locations.get_by_name") # {}
          /\ IsSuccess(last.result) => last.result.server.location = last.params.location

\* a server has been created in "nbg1", which no request names: the
\* request had no location
C24_Witness ==
    /\ last.op = "create_server"
    /\ IsSuccess(last.result)
    /\ last.params.location = "nbg1"
    /\ \E j \in CallsOf(last, "locations.get_by_name") :
          last.calls[j].name = "nbg1" /\ last.calls[j].out = "found"
    /\ \E j \in CallsOf(last, "servers.create") : last.calls[j].location = "nbg1"
    /\ last.result.server.location = "nbg1"

(***************************************************************************)
(* C25.  As claimed: the listener port has one fixed default.  When        *)
(* start_server runs with MCP_PORT unset and no port override, the port it *)
(* announces and assigns is the port the dispatcher was constructed with;  *)
(* with MCP_PORT or an explicit port given, the port announced and the     *)
(* port assigned are that value.  The module has two defaults, 8089 where  *)
(* the dispatcher is constructed and 8080 in start_server.                 *)
(***************************************************************************)
C25_OnePortDefault ==
    [][(process.phase = "registered" /\ process'.phase = "serving") =>
          /\ process'.announced = process'.mcp_port
          /\ (process.environ_port = NoneStr /\ process.port_arg = None) =>
                process'.mcp_port = process.mcp_port
          /\ process.port_arg # None => process'.mcp_port = process.port_arg
          /\ (process.port_arg = None /\ process.environ_port # NoneStr) =>
                /\ process'.mcp_port = ParseInt(process.environ_port)
                /\ process.mcp_port = ParseInt(process.environ_port)]_vars

\* the keys a success dictionary carries: an entity or a collection,
\* "success", and the actions of the provider
SuccessKeys ==
    {"server", "servers", "images", "server_types", "locations",
     "firewall", "firewalls", "volume", "volumes", "ssh_key", "ssh_keys",
     "success", "action", "actions", "next_actions", "root_password"}

(***************************************************************************)
(* C26.  Every envelope a handler returns is of exactly one kind: a        *)
(* dictionary with the key "error" has no other key, and a success         *)
(* dictionary (carrying an entity, "success", "action" or "actions") never *)
(* has the key "error".                                                    *)
(***************************************************************************)
C26_EnvelopeOfOneKind ==
    Returned =>
        LET d == last.result
        IN  /\ "error" \in DOMAIN d => DOMAIN d = {"error"}
            /\ DOMAIN d \cap SuccessKeys # {} => "error" \notin DOMAIN d
            /\ "error" \in DOMAIN d \/ DOMAIN d \subseteq SuccessKeys
            /\ DOMAIN d # {}

\* delete_firewall returned an error for a firewall the provider does not have
C26_Witness ==
    /\ last # Idle
    /\ last.op = "delete_firewall"
    /\ "error" \in DOMAIN last.result
    /\ Len(last.calls) = 1
    /\ last.calls[1].out = "none"

\* the tools that take a firewall and a list of resources
FirewallResourceTools == {"apply_firewall_to_resources", "remove_firewall_from_resources"}

\* a resource the loop of the handler stops at, in a project with the servers
\* `existing`, and the dictionary the loop returns for it
Offending(resource_param, existing) ==
    \/ /\ resource_param.type = "server"
       /\ ServerIdMissing(resource_param) \/ resource_param.server_id \notin existing
    \/ resource_param.type = "label_selector" /\ LabelSelectorMissing(resource_param)
    \/ resource_param.type \notin {"server", "label_selector"}

ErrorOfResource(resource_param) ==
    IF resource_param.type = "server"
    THEN IF ServerIdMissing(resource_param)
         THEN [error |-> Msg("Server ID is required when resource type is 'server'", <<>>, <<>>)]
         ELSE [error |-> Msg("Server with ID {} not found", <<resource_param.server_id>>, <<>>)]
    ELSE IF resource_param.type = "label_selector"
    THEN [error |-> Msg("Label selector is required when resource type is 'label_selector'",
                        <<>>, <<>>)]
    ELSE [error |-> Msg("Invalid resource type: {}. Must be 'server' or 'label_selector'",
                        <<>>, <<resource_param.type>>)]

\* the server ids of the resources that are looked up when all of `resources`
\* are examined, in the order of the list
RECURSIVE LookupIds(_)
LookupIds(resources) ==
    IF resources = <<>> THEN <<>>
    ELSE LET r == Head(resources)
         IN  (IF r.type = "server" /\ ~ServerIdMissing(r) THEN <<r.server_id>> ELSE <<>>)
             \o LookupIds(Tail(resources))

\* the ids of the server lookups an invocation has issued, in their order
RECURSIVE ServerLookups(_)
ServerLookups(calls) ==
    IF calls = <<>> THEN <<>>
    ELSE (IF Head(calls).op = "servers.get_by_id" THEN <<Head(calls).id>> ELSE <<>>)
         \o ServerLookups(Tail(calls))

IsPrefix(s, t) == Len(s) <= Len(t) /\ \A j \in 1..Len(s) : s[j] = t[j]

(***************************************************************************)
(* C27.  Lookups and checks inside a handler run in a fixed order and the  *)
(* first failure decides the error: attach_volume reports a missing volume *)
(* before it looks up the server; apply_firewall_to_resources and          *)
(* remove_firewall_from_resources report a missing firewall before they    *)
(* examine any resource; resources are examined in list order, so the      *)
(* error returned is that of the first offending resource and later        *)
(* resources are neither validated nor looked up.                          *)
(***************************************************************************)
C27_FirstFailureDecides ==
    /\ last.op = "attach_volume" =>
          /\ last.calls[1].op = "volumes.get_by_id"
          /\ last.calls[1].out = "none" =>
                /\ last.result = [error |-> Msg("Volume with ID {} not found",
                                                <<last.params.volume_id>>, <<>>)]
                /\ Len(last.calls) = 1
          /\ Len(last.calls) >= 2 =>
                /\ last.calls[1].out = "found"
                /\ last.calls[2].op = "servers.get_by_id"
    /\ last.op \in FirewallResourceTools =>
          /\ last.calls[1].op = "firewalls.get_by_id"
          /\ last.calls[1].out = "none" =>
                /\ last.result = [error |-> Msg("Firewall with ID {} not found",
                                                <<last.params.firewall_id>>, <<>>)]
                /\ Len(last.calls) = 1
          /\ Len(last.calls) >= 2 => last.calls[1].out = "found"
          /\ LET rs == last.params.resources
                 offenders == {j \in 1..Len(rs) : Offending(rs[j], servers)}
                 examined == IF offenders = {} THEN rs ELSE SubSeq(rs, 1, Min(offenders))
             IN  /\ IsPrefix(ServerLookups(last.calls), LookupIds(examined))
                 /\ (/\ last.calls[1].out = "found"
                     /\ offenders # {}
                     /\ ~SomeCallRaised(last)) =>
                        /\ last.result = ErrorOfResource(rs[Min(offenders)])
                        /\ ServerLookups(last.calls) = LookupIds(examined)
                        /\ Len(last.calls) = 1 + Len(LookupIds(examined))

\* the first of two resources names a server the project does not have: it
\* is looked up and decides the error, the second one is not looked up
C27_Witness ==
    /\ last.op \in FirewallResourceTools
    /\ Len(last.params.resources) = 2
    /\ last.params.resources[1].type = "server"
    /\ last.params.resources[2].type = "server"
    /\ TruthyInt(last.params.resources[2].server_id)
    /\ Len(last.calls) = 2
    /\ last.calls[2].out = "none"
    /\ IsError(last.result)
    /\ last.result.error.fmt = "Server with ID {} not found"

(***************************************************************************)
(* C28.  As claimed: in every interleaving of two resize_volume            *)
(* invocations on the same volume (interleaved at the granularity of       *)
(* provider calls), whenever an invocation issues the provider resize      *)
(* call, the requested size is strictly greater than the size the provider *)
(* holds for that volume at the moment of that call.  The handler compares *)
(* the requested size with the size of the object it has fetched, which    *)
(* the other invocation may have resized since.                            *)
(***************************************************************************)
C28_ResizeCallsGrowTheVolume ==
    [][\A i \in Invocations :
          (resizes[i].pc = "fetched" /\ resizes'[i].pc = "returning") =>
              resizes[i].params.size > volumes[resizes[i].params.volume_id].size]_vars

(***************************************************************************)
(* C29.  As claimed: an optional integer ID is treated as given exactly    *)
(* when it is not null: a firewall resource of type "server" with          *)
(* server_id 0 is looked up at the provider like any other ID (it is not   *)
(* reported as "Server ID is required"), and create_volume with server 0   *)
(* looks up server 0 rather than creating an unattached volume.  The       *)
(* handlers test the ID by truthiness (`if not resource_param.server_id`,  *)
(* `if params.server:`), which takes 0 for an ID that was not given.       *)
(***************************************************************************)
C29_GivenIffNotNull ==
    LET lookedUp(id) ==
            \E c \in 1..Len(last.calls) :
                last.calls[c].op = "servers.get_by_id" /\ last.calls[c].id = id
    IN  /\ (/\ last.op \in FirewallResourceTools \cup {"create_firewall"}
            /\ last.op \in FirewallResourceTools => last.calls[1].out = "found"
            /\ ~SomeCallRaised(last)
            /\ ResourcesOf(last) # <<>>
            /\ ResourcesOf(last)[1].type = "server"
            /\ ResourcesOf(last)[1].server_id = 0) =>
                /\ lookedUp(0)
                /\ last.result # [error |-> Msg("Server ID is required when resource type is 'server'",
                                                <<>>, <<>>)]
        /\ (/\ last.op = "create_volume"
            /\ last.params.server = 0
            /\ ~SomeCallRaised(last)
            /\ ~TruthyStr(last.params.location)) =>
                /\ lookedUp(0)
                /\ ~Issued(last, {"volumes.create"})
====
